---------------------------- MODULE Spec2Model ----------------------------
(***************************************************************************)
(* Truth Lens: the LLM service (src/unnamed/part_001, llm.js) and its       *)
(* collaborators, as a state machine.                                      *)
(*                                                                         *)
(* Text is a sequence of tokens (each token a TLA+ string holding a run of  *)
(* characters): string concatenation is \o on sequences, and Text(toks)     *)
(* is the JavaScript string the tokens spell.                               *)
(***************************************************************************)
EXTENDS Integers, Sequences, FiniteSets, TLC

(***************************************************************************)
(* Text helpers                                                            *)
(***************************************************************************)
QUOTE == "\""
\* The code-fence token (three backquotes, which a TLA+ string cannot hold).
FENCE == "~~~"
WsTokens == {" ", "\n"}
TagTokens == {"<tool_call>", "</tool_call>"}
ScoreWords == {"score", "SCORE", "Score"}

\* The integer parseInt reads off a token that starts with a number
\* (sign, then digits up to the first non-digit). Other tokens: NaN.
IntPrefix == [t \in {"0", "5", "42", "85", "150", "300", "-3", "7.9"} |->
    CASE t = "0" -> 0 [] t = "5" -> 5 [] t = "42" -> 42 [] t = "85" -> 85
      [] t = "150" -> 150 [] t = "300" -> 300 [] t = "-3" -> 0 - 3 [] t = "7.9" -> 7]
NumberTokens == DOMAIN IntPrefix
\* The tokens \d+ matches at their first character.
DigitTokens == NumberTokens \ {"-3"}

Min(a, b) == IF a < b THEN a ELSE b
Max(a, b) == IF a > b THEN a ELSE b

RECURSIVE Text(_)
Text(toks) == IF toks = <<>> THEN "" ELSE Head(toks) \o Text(Tail(toks))

\* String.prototype.indexOf / lastIndexOf on tokens; 0 stands for -1.
IndexOf(toks, t) ==
    IF \E i \in 1..Len(toks) : toks[i] = t
    THEN CHOOSE i \in 1..Len(toks) : toks[i] = t /\ \A j \in 1..(i - 1) : toks[j] # t
    ELSE 0
LastIndexOf(toks, t) ==
    IF \E i \in 1..Len(toks) : toks[i] = t
    THEN CHOOSE i \in 1..Len(toks) : toks[i] = t /\ \A j \in (i + 1)..Len(toks) : toks[j] # t
    ELSE 0
\* First index >= from holding t; 0 when there is none.
IndexFrom(toks, t, from) ==
    IF \E i \in from..Len(toks) : toks[i] = t
    THEN CHOOSE i \in from..Len(toks) : toks[i] = t /\ \A j \in from..(i - 1) : toks[j] # t
    ELSE 0

\* \s* : the first index >= i that is not whitespace (Len + 1 at the end).
RECURSIVE SkipWs(_, _)
SkipWs(toks, i) ==
    IF i <= Len(toks) /\ toks[i] \in WsTokens THEN SkipWs(toks, i + 1) ELSE i

\* String.prototype.trim
RECURSIVE TrimEnd(_)
TrimEnd(toks) ==
    IF toks # <<>> /\ toks[Len(toks)] \in WsTokens
    THEN TrimEnd(SubSeq(toks, 1, Len(toks) - 1)) ELSE toks
Trim(toks) == TrimEnd(SubSeq(toks, SkipWs(toks, 1), Len(toks)))

(***************************************************************************)
(* JSON values, JSON.parse and JSON.stringify                              *)
(***************************************************************************)
Undefined == [t |-> "undefined"]
JNull == [t |-> "null"]
JNum(tok) == [t |-> "num", tok |-> tok]
JStr(pieces) == [t |-> "str", v |-> pieces]
JArr(elems) == [t |-> "arr", v |-> elems]
JObj(members) == [t |-> "obj", v |-> members]
Member(k, val) == [k |-> k, val |-> val]

ParseFail == [ok |-> FALSE, val |-> Undefined, pos |-> 0]
ParseOk(val, pos) == [ok |-> TRUE, val |-> val, pos |-> pos]

\* A string literal opening at toks[i] = QUOTE: the pieces up to the next
\* quote. A raw newline inside a literal is a syntax error.
ParseString(toks, i) ==
    LET k == IndexFrom(toks, QUOTE, i + 1) IN
    IF k = 0 \/ \E j \in (i + 1)..(k - 1) : toks[j] = "\n"
    THEN ParseFail
    ELSE ParseOk(JStr(SubSeq(toks, i + 1, k - 1)), k + 1)

RECURSIVE ParseValue(_, _)
RECURSIVE ParseMembers(_, _, _)
RECURSIVE ParseElements(_, _, _)
\* JSON value starting at or after index i; pos is the index after it.
ParseValue(toks, i) ==
    LET j == SkipWs(toks, i) IN
    IF j > Len(toks) THEN ParseFail
    ELSE CASE toks[j] = "{" ->
                  LET k == SkipWs(toks, j + 1) IN
                  IF k <= Len(toks) /\ toks[k] = "}" THEN ParseOk(JObj(<<>>), k + 1)
                  ELSE ParseMembers(toks, j + 1, <<>>)
           [] toks[j] = "[" ->
                  LET k == SkipWs(toks, j + 1) IN
                  IF k <= Len(toks) /\ toks[k] = "]" THEN ParseOk(JArr(<<>>), k + 1)
                  ELSE ParseElements(toks, j + 1, <<>>)
           [] toks[j] = QUOTE -> ParseString(toks, j)
           [] toks[j] \in NumberTokens -> ParseOk(JNum(toks[j]), j + 1)
           [] toks[j] = "null" -> ParseOk(JNull, j + 1)
           [] OTHER -> ParseFail

\* The key-value pairs after an opening brace or a comma, up to the closing brace.
ParseMembers(toks, i, acc) ==
    LET j == SkipWs(toks, i) IN
    IF j > Len(toks) \/ toks[j] # QUOTE THEN ParseFail
    ELSE LET key == ParseString(toks, j) IN
         IF ~key.ok THEN ParseFail
         ELSE LET c == SkipWs(toks, key.pos) IN
              IF c > Len(toks) \/ toks[c] # ":" THEN ParseFail
              ELSE LET val == ParseValue(toks, c + 1) IN
                   IF ~val.ok THEN ParseFail
                   ELSE LET e == SkipWs(toks, val.pos)
                            acc2 == Append(acc, Member(Text(key.val.v), val.val))
                        IN IF e > Len(toks) THEN ParseFail
                           ELSE IF toks[e] = "," THEN ParseMembers(toks, e + 1, acc2)
                           ELSE IF toks[e] = "}" THEN ParseOk(JObj(acc2), e + 1)
                           ELSE ParseFail

\* The array elements after an opening bracket or a comma, up to the closing bracket.
ParseElements(toks, i, acc) ==
    LET val == ParseValue(toks, i) IN
    IF ~val.ok THEN ParseFail
    ELSE LET e == SkipWs(toks, val.pos)
             acc2 == Append(acc, val.val)
         IN IF e > Len(toks) THEN ParseFail
            ELSE IF toks[e] = "," THEN ParseElements(toks, e + 1, acc2)
            ELSE IF toks[e] = "]" THEN ParseOk(JArr(acc2), e + 1)
            ELSE ParseFail

\* JSON.parse: ok = FALSE is the SyntaxError.
JsonParse(toks) ==
    LET r == ParseValue(toks, 1) IN
    IF r.ok /\ SkipWs(toks, r.pos) > Len(toks) THEN r ELSE ParseFail

\* obj[key] of a parsed object: the last member named key, else undefined.
Get(obj, key) ==
    IF obj.t = "obj" /\ \E i \in 1..Len(obj.v) : obj.v[i].k = key
    THEN obj.v[CHOOSE i \in 1..Len(obj.v) :
                   obj.v[i].k = key /\ \A j \in (i + 1)..Len(obj.v) : obj.v[j].k # key].val
    ELSE Undefined

\* JavaScript truthiness of a JSON value.
Truthy(val) ==
    CASE val.t = "undefined" -> FALSE
      [] val.t = "null" -> FALSE
      [] val.t = "num" -> val.tok # "0"
      [] val.t = "str" -> Text(val.v) # ""
      [] OTHER -> TRUE
\* a || b
OrElse(val, dflt) == IF Truthy(val) THEN val ELSE dflt

RECURSIVE Stringify(_)
RECURSIVE StringifyMembers(_)
RECURSIVE StringifyElements(_)
\* JSON.stringify of a value (members holding undefined are left out).
Stringify(val) ==
    CASE val.t = "null" -> <<"null">>
      [] val.t = "num" -> <<val.tok>>
      [] val.t = "str" -> <<QUOTE>> \o val.v \o <<QUOTE>>
      [] val.t = "arr" -> <<"[">> \o StringifyElements(val.v) \o <<"]">>
      [] val.t = "obj" ->
            <<"{">> \o StringifyMembers(SelectSeq(val.v, LAMBDA m : m.val.t # "undefined"))
                    \o <<"}">>
      [] OTHER -> <<>>
StringifyMembers(ms) ==
    IF ms = <<>> THEN <<>>
    ELSE <<QUOTE, Head(ms).k, QUOTE, ":">> \o Stringify(Head(ms).val)
         \o (IF Len(ms) > 1 THEN <<",">> ELSE <<>>) \o StringifyMembers(Tail(ms))
StringifyElements(es) ==
    IF es = <<>> THEN <<>>
    ELSE Stringify(Head(es)) \o (IF Len(es) > 1 THEN <<",">> ELSE <<>>)
         \o StringifyElements(Tail(es))


(***************************************************************************)
(* parseResponse                                                           *)
(***************************************************************************)
SummaryChars == 500

NaN == [nan |-> TRUE, n |-> 0]
Num(n) == [nan |-> FALSE, n |-> n]

\* parseInt(x): x is turned into a string and its leading integer is read.
RECURSIVE ParseInt(_)
ParseInt(val) ==
    CASE val.t = "num" -> Num(IntPrefix[val.tok])
      [] val.t = "str" ->
            LET j == SkipWs(val.v, 1) IN
            IF j <= Len(val.v) /\ val.v[j] \in NumberTokens
            THEN Num(IntPrefix[val.v[j]]) ELSE NaN
      [] val.t = "arr" -> IF val.v = <<>> THEN NaN ELSE ParseInt(val.v[1])
      [] OTHER -> NaN

\* Variant: parseInt(score) || 0 without Math.min and Math.max.
ParseIntOrZero(val) == LET p == ParseInt(val) IN IF p.nan THEN 0 ELSE p.n
\* Math.min(100, Math.max(0, parseInt(score) || 0))
ClampScore(val) ==
    LET p == ParseInt(val) IN Min(100, Max(0, IF p.nan THEN 0 ELSE p.n))

MatchFenceNone(content) == [found |-> FALSE, group |-> <<>>]

\* content.match(/```(?:json)?\s*([\s\S]*?)```/): the leftmost fence that has a
\* closing fence after it; group is what lies between the two.
MatchFence(content) ==
    LET open == IndexOf(content, FENCE)
        a == IF open + 1 <= Len(content) /\ content[open + 1] = "json"
             THEN open + 2 ELSE open + 1
        b == SkipWs(content, a)
        close == IndexFrom(content, FENCE, b)
    IN IF open = 0 \/ close = 0 THEN [found |-> FALSE, group |-> <<>>]
       ELSE [found |-> TRUE, group |-> SubSeq(content, b, close - 1)]

\* jsonStr.replace(/<\/?tool_call[^>]*>/g, '')
StripToolCallTags(toks) == SelectSeq(toks, LAMBDA t : t \notin TagTokens)

\* String.prototype.substring(s - 1, e) on 1-based token positions: the
\* arguments are swapped when the first is the larger.
Substring(toks, s, e) ==
    IF s <= e + 1 THEN SubSeq(toks, s, e) ELSE SubSeq(toks, e + 1, s - 1)

\* content.match(/SCORE:\s*(\d+)/i): the digits of the leftmost match, -1 for null.
ScoreMatchPlain(content) ==
    LET Hit(i) == /\ content[i] \in ScoreWords
                  /\ i + 1 <= Len(content) /\ content[i + 1] = ":"
                  /\ SkipWs(content, i + 2) <= Len(content)
                  /\ content[SkipWs(content, i + 2)] \in DigitTokens
    IN IF \E i \in 1..Len(content) : Hit(i)
       THEN LET i == CHOOSE k \in 1..Len(content) : Hit(k) /\ \A j \in 1..(k - 1) : ~Hit(j)
            IN IntPrefix[content[SkipWs(content, i + 2)]]
       ELSE 0 - 1

\* content.match(/"score":\s*(\d+)/i)
ScoreMatchQuoted(content) ==
    LET Hit(i) == /\ i + 3 <= Len(content)
                  /\ content[i] = QUOTE /\ content[i + 1] \in ScoreWords
                  /\ content[i + 2] = QUOTE /\ content[i + 3] = ":"
                  /\ SkipWs(content, i + 4) <= Len(content)
                  /\ content[SkipWs(content, i + 4)] \in DigitTokens
    IN IF \E i \in 1..Len(content) : Hit(i)
       THEN LET i == CHOOSE k \in 1..Len(content) : Hit(k) /\ \A j \in 1..(k - 1) : ~Hit(j)
            IN IntPrefix[content[SkipWs(content, i + 4)]]
       ELSE 0 - 1

Report(score, verdict, summary, claims, context, sources, bias, raw) ==
    [score |-> score, verdict |-> verdict, summary |-> summary, claims |-> claims,
     context |-> context, sources |-> sources, bias |-> bias, raw |-> raw]

\* The catch block of parseResponse.
FallbackScore(content) ==
    IF ScoreMatchPlain(content) >= 0 THEN ScoreMatchPlain(content)
    ELSE IF ScoreMatchQuoted(content) >= 0 THEN ScoreMatchQuoted(content)
    ELSE 50
ParseFallback(content) ==
    Report(FallbackScore(content), JStr(<<"UNKNOWN">>),
           JStr(SubSeq(content, 1, Min(SummaryChars, Len(content)))),
           JArr(<<>>), JStr(<<>>), JStr(<<>>), JStr(<<>>), content)

\* The normalised report built from the parsed object.
Normalise(parsed, content) ==
    Report(ClampScore(Get(parsed, "score")),
           OrElse(Get(parsed, "verdict"), JStr(<<"UNKNOWN">>)),
           OrElse(Get(parsed, "summary"), JStr(<<>>)),
           OrElse(Get(parsed, "claims"), JArr(<<>>)),
           OrElse(Get(parsed, "context"), JStr(<<>>)),
           OrElse(Get(parsed, "sources"), JStr(<<>>)),
           OrElse(Get(parsed, "bias"), JStr(<<>>)),
           content)

\* LLMService.parseResponse of llm.js.
ParseResponse(content) ==
    LET m == MatchFence(content)
        candidate == StripToolCallTags(IF m.found THEN Trim(m.group) ELSE content)
        s == IndexOf(candidate, "{")
        e == LastIndexOf(candidate, "}")
    IN IF s # 0 /\ e # 0 /\ e > s
       THEN LET parsed == JsonParse(SubSeq(candidate, s, e)) IN
            IF parsed.ok THEN Normalise(parsed.val, content) ELSE ParseFallback(content)
       ELSE ParseFallback(content)

\* LLMService.parseResponse of the older llm_service.js: no tag stripping, the
\* brace span is taken whenever both braces exist, and the text is parsed as
\* it is when they do not; reading a field of null throws into the catch block.
ParseResponseLegacy(content) ==
    LET m == MatchFence(content)
        candidate == IF m.found THEN Trim(m.group) ELSE content
        s == IndexOf(candidate, "{")
        e == LastIndexOf(candidate, "}")
        parsed == JsonParse(IF s # 0 /\ e # 0 THEN Substring(candidate, s, e) ELSE candidate)
    IN IF parsed.ok /\ parsed.val.t # "null"
       THEN Normalise(parsed.val, content) ELSE ParseFallback(content)


(***************************************************************************)
(* Bounds of the model                                                     *)
(***************************************************************************)
\* Lines the endpoint may choose freely in the round whose lines are free.
MaxLines == 4
\* Tool rounds the endpoint may ask for when it answers with whole streams.
MaxToolRounds == 2
\* Times the user saves new settings while a call is running.
MaxSaves == 1

(***************************************************************************)
(* State                                                                   *)
(***************************************************************************)
VARIABLES
    scenario,       \* what the environment does in this behaviour (see Scenarios)
    storage,        \* chrome.storage.sync
    saves,          \* settings saves so far
    this,           \* the fields of the llmService singleton
    call,           \* the LLMService method that was called
    pc,             \* where the call stands
    depth,          \* depth of the running continueWithToolResults; -1 in analyzeTextStream
    messages,       \* payload.messages of the latest request
    prevMessages,   \* payload.messages of the request before it
    requests,       \* fetch calls made to the model endpoint
    response,       \* status and provider message of the latest response
    stream,         \* lines the response body still holds
    linesRead,      \* lines read from the response body of this round
    received,       \* the lines read in this round, in arrival order
    fullContent,    \* fullContent of the running function
    firstContent,   \* fullContent of analyzeTextStream, alive while it awaits the continuation
    toolCalls,      \* toolCalls / newToolCalls
    emittedResponseStart,
    tcIdx,          \* position of the for loop over the tool calls
    toolResults,    \* toolResults / newToolResults
    events,         \* the onChunk calls made so far
    result,         \* what the call returned
    error,          \* what the call threw
    parseInput,     \* the text handed to parseResponse (parser specification)
    parseReport,    \* the report object parseInput was written from, if any
    parseVariant,   \* which of the two parseResponse versions is called
    parseOutput,    \* what parseResponse returned
    hImpl,          \* which saveHistory runs: of the storage module or of sidepanel.js
    history,        \* chrome.storage.local: factCheckHistory
    now,            \* Date.now()
    hLocal,         \* per caller: the running saveHistory, its item and the list it read
    hSaves,         \* saveHistory calls made so far
    cImpl,          \* which check module runs: part_008 (older) or js/features/check.js
    cache,          \* chrome.storage.local: factCheckCache
    cPc,            \* where the page check stands
    cCheck,         \* the arguments of the running check and what it found at its start
    cRequests,      \* analysis requests made to the model
    cShown,         \* the report the latest check delivered
    cFresh,         \* per content: the latest report computed by the model, and when
    cChecks,        \* checks started so far
    cAdv,           \* clock jumps so far
    cApi,           \* the running calls of the cache functions, and what they completed
    panel,          \* the side panel: tab states, focus, view, running checks
    web             \* a call of search(): its arguments, the request's outcome, its result

sessionVars == <<storage, saves, this, call, pc, depth, messages, prevMessages, requests,
                 response, stream, linesRead, received, fullContent, firstContent, toolCalls,
                 emittedResponseStart, tcIdx, toolResults, events, result, error>>
parseVars == <<parseInput, parseReport, parseVariant, parseOutput>>
historyVars == <<hImpl, history, now, hLocal, hSaves>>
cacheVars == <<cImpl, cache, cPc, cCheck, cRequests, cShown, cFresh, cChecks, cAdv, cApi>>
panelVars == <<historyVars, cacheVars, panel, web>>
vars == <<scenario, sessionVars, parseVars, panelVars>>

\* "stream0": the lines of the first response are free; "stream1": the lines of
\* the first continuation response are free; "rounds": every response is a
\* whole stream of ToolStreams or the final one, and every search outcome
\* happens; "greedy": every response asks for one more web search;
\* "settings": any stored configuration, any method, and the settings change
\* while the call runs. "parse" is the parser specification, where no call runs.
Scenarios == {"stream0", "stream1", "rounds", "greedy", "settings"}

NoResult == [t |-> "none"]

(***************************************************************************)
(* Configuration                                                           *)
(***************************************************************************)
NoSettings == [apiKey |-> "", systemPrompt |-> "", reportLanguage |-> "", language |-> ""]
\* The object saveSettings of the settings module stores under truthLensSettings.
NestedSettings(key, lang) ==
    [apiKey |-> key, systemPrompt |-> "", reportLanguage |-> "", language |-> lang]
\* The top-level keys the older side panel stored.
FlatSettings(key, prompt, lang) ==
    [apiKey |-> key, systemPrompt |-> prompt, reportLanguage |-> lang, language |-> ""]
Stored(hasNested, nested, flat) == [hasNested |-> hasNested, nested |-> nested, flat |-> flat]
DefaultStorage == Stored(TRUE, NestedSettings("sk-1", "en"), NoSettings)
StorageSet ==
    { DefaultStorage,
      Stored(TRUE, NestedSettings("sk-1", "fr"), NoSettings),
      Stored(TRUE, NestedSettings("", "en"), NoSettings),
      Stored(FALSE, NoSettings, FlatSettings("sk-1", "Custom prompt", "en")),
      Stored(FALSE, NoSettings, NoSettings) }

\* The assignments of loadConfig.
LoadedConfig(st) ==
    LET settings == IF st.hasNested THEN st.nested ELSE st.flat IN
    [apiKey |-> settings.apiKey,
     systemPrompt |-> settings.systemPrompt,
     reportLanguage |-> IF settings.reportLanguage # "" THEN settings.reportLanguage
                        ELSE IF settings.language # "" THEN settings.language ELSE "en"]
\* Variant: loadConfig without the test of this.apiKey.
LoadConfigNeverThrows(st) == FALSE
\* loadConfig throws after the assignments when there is no key.
LoadConfigThrows(st) == LoadedConfig(st).apiKey = ""

ConstructedService == [apiKey |-> "", systemPrompt |-> "", reportLanguage |-> "en"]

GetLanguageName(code) ==
    CASE code = "en" -> "English" [] code = "fr" -> "French" [] code = "ar" -> "Arabic"
      [] OTHER -> "English"

OriginalText == "The Eiffel Tower is in Berlin."
GenerateUserPrompt(text, langName) == [kind |-> "userPrompt", text |-> text, lang |-> langName]
\* this.systemPrompt || getDefaultSystemPrompt()
SystemPrompt(svc) ==
    [kind |-> "systemPrompt",
     text |-> IF svc.systemPrompt # "" THEN svc.systemPrompt ELSE "getDefaultSystemPrompt()"]

SystemMessage(svc) == [role |-> "system", content |-> SystemPrompt(svc)]
UserMessage(svc, text) ==
    [role |-> "user", content |-> GenerateUserPrompt(text, GetLanguageName(svc.reportLanguage))]
AssistantMessage(tcs) == [role |-> "assistant", content |-> JNull, tool_calls |-> tcs]
ToolMessage(id, content) == [tool_call_id |-> id, role |-> "tool", content |-> content]

\* payload.messages of analyzeText and analyzeTextStream
InitialMessages(svc, text) == <<SystemMessage(svc), UserMessage(svc, text)>>


(***************************************************************************)
(* The event stream of one response and the merging of tool-call fragments  *)
(***************************************************************************)
MAX_TOOL_DEPTH == 100

\* A slot of a sparse JavaScript array that was never assigned.
Hole == [hole |-> TRUE]
IsHole(tc) == "hole" \in DOMAIN tc
EmptyToolCall == [id |-> "", type |-> "function", function |-> [name |-> "", arguments |-> <<>>]]

\* onChunk(chunk, fullText, eventType, eventData)
Event(chunk, fullText, type, data) ==
    [chunk |-> chunk, fullText |-> fullText, type |-> type, data |-> data]

\* One element of delta.tool_calls; a missing id, name or arguments is the
\* empty string (the code tests them for truthiness), a missing index is -1.
Fragment(index, id, name, arguments) ==
    [index |-> index, id |-> id, name |-> name, arguments |-> arguments]
\* The lines of a response body: data: {choices: [{delta}]}, data: [DONE],
\* and a data line that is not JSON.
DeltaLine(content, frags) == [kind |-> "delta", content |-> content, tool_calls |-> frags]
DoneLine == [kind |-> "done"]
MalformedLine == [kind |-> "malformed"]

\* if (tc.function?.name) ... : analyzeTextStream appends, continueWithToolResults assigns.
MergeName(fn, old, frag) ==
    IF frag = "" THEN old
    ELSE IF fn = "analyzeTextStream" THEN old \o frag ELSE frag
\* Variant: the arguments assigned (=) where the code appends (+=).
MergeArgumentsAssign(old, frag) == IF frag = <<>> THEN old ELSE frag
\* if (tc.function?.arguments) ... += tc.function.arguments
MergeArguments(old, frag) == old \o frag
\* if (tc.id) ....id = tc.id
MergeId(old, frag) == IF frag # "" THEN frag ELSE old

\* The body of for (const tc of delta.tool_calls).
MergeToolCall(fn, tcs, tc) ==
    LET i == tc.index + 1
        ext == IF Len(tcs) >= i THEN tcs ELSE tcs \o [k \in 1..(i - Len(tcs)) |-> Hole]
        cur == IF IsHole(ext[i]) THEN EmptyToolCall ELSE ext[i]
    IN IF tc.index < 0 THEN tcs
       ELSE [ext EXCEPT ![i] =
                [id |-> MergeId(cur.id, tc.id),
                 type |-> "function",
                 function |-> [name |-> MergeName(fn, cur.function.name, tc.name),
                               arguments |-> MergeArguments(cur.function.arguments,
                                                            tc.arguments)]]]

RECURSIVE MergeToolCalls(_, _, _)
MergeToolCalls(fn, tcs, frags) ==
    IF frags = <<>> THEN tcs
    ELSE MergeToolCalls(fn, MergeToolCall(fn, tcs, Head(frags)), Tail(frags))

\* Variant: response_start before every content fragment of a continuation.
EmitsResponseStartAlways(fn, emitted, hasContent) ==
    fn = "continueWithToolResults" /\ hasContent
\* if (!emittedResponseStart) { onChunk('', '', 'response_start', null); ... },
\* inside if (delta?.content), in continueWithToolResults only.
EmitsResponseStart(fn, emitted, hasContent) ==
    fn = "continueWithToolResults" /\ hasContent /\ ~emitted

\* Variant: a payload that does not parse is taken as content.
OnParseErrorAsText(acc) == [acc EXCEPT !.fullContent = @ \o <<"{broken">>]
\* catch (e) { /* Ignore parse errors */ } around JSON.parse and the handling
\* of the delta.
OnParseError(acc) == acc

\* The body of for (const line of lines) on the accumulators
\* acc = [fullContent, toolCalls, emittedResponseStart, events].
ProcessLine(fn, acc, line) ==
    IF line.kind = "malformed" THEN OnParseError(acc)
    ELSE IF line.kind # "delta" THEN acc
    ELSE LET hasContent == line.content # <<>>
             start == EmitsResponseStart(fn, acc.emittedResponseStart, hasContent)
             content2 == acc.fullContent \o line.content
             ev1 == IF start
                    THEN Append(acc.events, Event(<<>>, <<>>, "response_start", JNull))
                    ELSE acc.events
             ev2 == IF hasContent
                    THEN Append(ev1, Event(line.content, content2, "thinking", JNull))
                    ELSE ev1
         IN [fullContent |-> content2,
             toolCalls |-> MergeToolCalls(fn, acc.toolCalls, line.tool_calls),
             emittedResponseStart |-> acc.emittedResponseStart \/ start,
             events |-> ev2]

\* toolCalls.length > 0 && toolCalls.some(tc => tc.function.name)
HasNamedToolCall(tcs) ==
    \E i \in 1..Len(tcs) : ~IsHole(tcs[i]) /\ tcs[i].function.name # ""

(***************************************************************************)
(* What the model endpoint may send                                        *)
(***************************************************************************)
QueryArgs(q) == <<"{", QUOTE, "query", QUOTE, ":", QUOTE, q, QUOTE, "}">>
ArgsHead == <<"{", QUOTE, "qu">>
ArgsTail == <<"ery", QUOTE, ":", QUOTE, "x", QUOTE, "}">>

ExampleClaim ==
    JObj(<<Member("claim", JStr(<<"The Eiffel Tower is in Berlin.">>)),
           Member("verdict", JStr(<<"FALSE">>)),
           Member("explanation", JStr(<<"It is in Paris.">>)),
           Member("confidence", JStr(<<"HIGH">>))>>)
ExampleReport ==
    JObj(<<Member("score", JNum("5")), Member("verdict", JStr(<<"FALSE">>)),
           Member("summary", JStr(<<"...">>)), Member("claims", JArr(<<ExampleClaim>>))>>)

FreeLines ==
    { DeltaLine(<<"Checking">>, <<>>),
      DeltaLine(<<>>, <<Fragment(0, "call_a", "web_search", <<>>)>>),
      DeltaLine(<<>>, <<Fragment(0, "", "", ArgsHead)>>),
      DeltaLine(<<>>, <<Fragment(0, "", "", ArgsTail)>>),
      DeltaLine(<<>>, <<Fragment(1, "call_b", "web_search", QueryArgs("y"))>>),
      MalformedLine,
      DoneLine }

CallLine(index, id, name, arguments) ==
    DeltaLine(<<>>, <<Fragment(index, id, name, arguments)>>)
FinalStream == <<DeltaLine(Stringify(ExampleReport), <<>>), DoneLine>>
OneCallStream == <<CallLine(0, "call_a", "web_search", QueryArgs("x")), DoneLine>>
\* A call whose arguments stop in the middle of the JSON text.
BadArgsStream == <<CallLine(0, "call_a", "web_search", ArgsHead), DoneLine>>
\* A call announced in words: content and a tool call in one response.
TextCallStream ==
    <<DeltaLine(<<"Let me search.">>, <<>>),
      CallLine(0, "call_a", "web_search", QueryArgs("x")), DoneLine>>
ToolStreams ==
    { OneCallStream,
      <<CallLine(0, "call_a", "web_search", QueryArgs("x")),
        CallLine(1, "call_b", "web_search", QueryArgs("y"))>>,
      <<CallLine(0, "call_a", "web_search", ArgsHead),
        CallLine(1, "call_b", "web_search", QueryArgs("y"))>>,
      <<CallLine(0, "call_a", "web_search", <<"null">>),
        CallLine(1, "call_b", "web_search", QueryArgs("y"))>>,
      <<CallLine(0, "call_a", "other_tool", <<"{", "}">>),
        CallLine(1, "call_b", "web_search", QueryArgs("y"))>> }


(***************************************************************************)
(* The web_search tool as the session sees it                              *)
(***************************************************************************)
\* What search() finds: results, or none (no hit, a failed or rejected fetch).
SearchOutcomes == {"results", "empty"}

\* executeWebSearchTool(args): the formatted string it returns.
ExecuteWebSearchTool(args, outcome) ==
    LET query == Get(args, "query") IN
    IF ~Truthy(query) THEN <<"Error: Search query is required">>
    ELSE IF query.t # "str" \/ outcome # "results"
    THEN <<"No results found for: ", QUOTE>> \o Stringify(query) \o <<QUOTE>>
    ELSE <<"**Web Search Results for ", QUOTE>> \o query.v \o <<QUOTE, ":**", "\n", "\n",
           "### ", "1", ". ", "Top result", "\n",
           "**URL:** ", "https://top.example", "\n",
           "(Could not extract content)", "\n", "\n", "---", "\n", "\n">>

\* result.match(/### \d+\. (.+?)\n\*\*URL:\*\* (.+?)\n/g) mapped to {title, url}
RECURSIVE ParsedResultsFrom(_, _)
ParsedResultsFrom(toks, i) ==
    IF i + 7 > Len(toks) THEN <<>>
    ELSE IF /\ toks[i] = "### " /\ toks[i + 2] = ". " /\ toks[i + 4] = "\n"
            /\ toks[i + 5] = "**URL:** " /\ toks[i + 7] = "\n"
         THEN <<[title |-> toks[i + 3], url |-> toks[i + 6]]>>
              \o ParsedResultsFrom(toks, i + 8)
         ELSE ParsedResultsFrom(toks, i + 1)
ParsedResults(toks) == ParsedResultsFrom(toks, 1)

\* JSON.stringify({ error: e.message })
ErrorContent(message) == JStr(Stringify(JObj(<<Member("error", JStr(<<message>>))>>)))

(***************************************************************************)
(* Errors and the degraded reports                                         *)
(***************************************************************************)
Err(name, status, message) == [name |-> name, status |-> status, message |-> message]
NoError == Err("none", 0, "")
ConfigError == Err("Error", 0, "API Key is missing. Please configure it in Settings.")
\* new Error(`API Error: ${response.status} - ${errorData.error?.message || response.statusText}`)
ApiError(status, message) == Err("API Error", status, message)
HttpFailures == {[status |-> 401, message |-> "provider: invalid key"],
                 [status |-> 500, message |-> "Internal Server Error"]}
NoResponse == [status |-> 0, message |-> ""]
OkResponse == [status |-> 200, message |-> "OK"]

\* The report of the catch (contError) block of analyzeTextStream.
AnalysisErrorReport(raw) ==
    Report(50, JStr(<<"ANALYSIS_ERROR">>),
           JStr(<<"Analysis encountered an API error during web search processing. Partial results may be available.">>),
           JArr(<<>>), JStr(<<"Web search was performed but follow-up analysis failed.">>),
           JStr(<<>>), JStr(<<>>), raw)
\* The report continueWithToolResults returns at depth >= MAX_TOOL_DEPTH.
MaxDepthReport ==
    Report(50, JStr(<<"UNVERIFIABLE">>),
           JStr(<<"Analysis could not be completed - too many search iterations required.">>),
           JArr(<<>>), JStr(<<>>), JStr(<<>>), JStr(<<>>), <<>>)


(***************************************************************************)
(* The calls: analyzeText, analyzeTextStream, generateSummary               *)
(***************************************************************************)
cfgVars == <<storage, saves, this>>
roundVars == <<stream, linesRead, received, fullContent, toolCalls, emittedResponseStart>>
loopVars == <<tcIdx, toolResults>>
sendVars == <<messages, prevMessages, requests>>
reqVars == <<sendVars, response>>

Methods == {"analyzeText", "analyzeTextStream", "generateSummary"}
\* The function whose loop is running.
Fn == IF depth < 0 THEN "analyzeTextStream" ELSE "continueWithToolResults"
IsFreeRound == (scenario = "stream0" /\ depth = -1) \/ (scenario = "stream1" /\ depth = 0)

Return(r) == pc' = "done" /\ result' = r /\ error' = error
Fail(e) == pc' = "failed" /\ error' = e /\ result' = result
\* Variant: analyzeTextStream without the try/catch around the continuation.
ThrowToCaller(e) == Fail(e)
\* An exception leaving the running function: out of continueWithToolResults
\* it lands in the catch (contError) block of analyzeTextStream.
Throw(e) == IF depth >= 0 THEN Return(AnalysisErrorReport(firstContent)) ELSE Fail(e)

\* A fresh response body is about to be read.
StartRound(body) ==
    /\ stream' = body /\ linesRead' = 0 /\ received' = <<>>
    /\ fullContent' = <<>> /\ toolCalls' = <<>> /\ emittedResponseStart' = FALSE

\* The user saves other settings in the Settings tab.
SaveSettings(st) ==
    /\ scenario = "settings"
    /\ saves < MaxSaves /\ pc \notin {"idle", "done", "failed"}
    /\ st # storage
    /\ storage' = st /\ saves' = saves + 1
    /\ UNCHANGED <<scenario, this, call, pc, depth, reqVars, roundVars, firstContent,
                   loopVars, events, result, error, parseVars, panelVars>>

\* loadConfig of another call on the same llmService (a check on another tab,
\* or its generateSummary) while this call is suspended.
ConcurrentLoadConfig ==
    /\ scenario = "settings"
    /\ pc \notin {"idle", "loadConfig", "done", "failed"}
    /\ this' = LoadedConfig(storage)
    /\ UNCHANGED <<scenario, storage, saves, call, pc, depth, reqVars, roundVars,
                   firstContent, loopVars, events, result, error, parseVars, panelVars>>

CallMethod(m) ==
    /\ pc = "idle"
    /\ m = "analyzeTextStream" \/ scenario = "settings"
    /\ call' = m /\ pc' = "loadConfig"
    /\ UNCHANGED <<scenario, cfgVars, depth, reqVars, roundVars, firstContent, loopVars,
                   events, result, error, parseVars, panelVars>>

\* generateSummary's single user message.
SummaryMessages == <<[role |-> "user", content |-> JStr(<<"summaryPrompt">>)]>>

\* await this.loadConfig(), and on success the code up to await fetch(...).
LoadConfig ==
    /\ pc = "loadConfig"
    /\ this' = LoadedConfig(storage)
    /\ IF LoadConfigThrows(storage)
       THEN Fail(ConfigError) /\ UNCHANGED reqVars
       ELSE /\ pc' = "fetch" /\ UNCHANGED <<result, error>>
            /\ messages' = IF call = "generateSummary" THEN SummaryMessages
                           ELSE InitialMessages(this', OriginalText)
            /\ prevMessages' = messages
            /\ requests' = requests + 1
            /\ response' = NoResponse
    /\ UNCHANGED <<scenario, storage, saves, call, depth, roundVars, firstContent,
                   loopVars, events, parseVars, panelVars>>

\* The streams the endpoint may answer the pending request with.
StreamChoices ==
    CASE scenario = "greedy" ->
            IF depth = MAX_TOOL_DEPTH - 1
            THEN {OneCallStream, BadArgsStream, TextCallStream}
            ELSE {OneCallStream}
      [] scenario = "stream0" -> IF depth = -1 THEN {<<>>} ELSE {FinalStream}
      [] scenario = "stream1" ->
            IF depth = -1 THEN {OneCallStream} ELSE IF depth = 0 THEN {<<>>} ELSE {FinalStream}
      [] scenario = "settings" ->
            IF depth = -1 THEN {OneCallStream, FinalStream} ELSE {FinalStream}
      [] OTHER -> {FinalStream} \cup (IF depth + 1 < MaxToolRounds THEN ToolStreams ELSE {})

\* fetch resolves with response.ok: response.body.getReader() and the accumulators.
StreamResponse ==
    /\ pc = "fetch" /\ call = "analyzeTextStream"
    /\ \E body \in StreamChoices : StartRound(body)
    /\ pc' = "stream" /\ response' = OkResponse
    /\ UNCHANGED <<scenario, cfgVars, call, depth, sendVars, firstContent, loopVars,
                   events, result, error, parseVars, panelVars>>

\* fetch resolves with a non-2xx status: the API Error is thrown.
HttpError ==
    /\ pc = "fetch" /\ call \in {"analyzeText", "analyzeTextStream"}
    /\ \E f \in HttpFailures : response' = f /\ Throw(ApiError(f.status, f.message))
    /\ UNCHANGED <<scenario, cfgVars, call, depth, sendVars, roundVars, firstContent,
                   loopVars, events, parseVars, panelVars>>

\* fetch rejects (no network).
NetworkError ==
    /\ pc = "fetch" /\ call \in {"analyzeText", "analyzeTextStream"}
    /\ Throw(Err("TypeError", 0, "Failed to fetch"))
    /\ UNCHANGED <<scenario, cfgVars, call, depth, reqVars, roundVars, firstContent,
                   loopVars, events, parseVars, panelVars>>

\* analyzeText: data.choices?.[0]?.message?.content of the response body.
TextResponse ==
    /\ pc = "fetch" /\ call = "analyzeText"
    /\ \E content \in {<<>>, Stringify(ExampleReport), <<"SCORE", ":", " ", "85">>} :
          IF content = <<>>
          THEN Fail(Err("Error", 0, "Invalid response format from LLM provider."))
          ELSE Return(ParseResponse(content))
    /\ response' = OkResponse
    /\ UNCHANGED <<scenario, cfgVars, call, depth, sendVars, roundVars, firstContent,
                   loopVars, events, parseVars, panelVars>>

\* generateSummary: the summary text, or null for a non-2xx status, an empty
\* summary or a rejected fetch.
SummaryResponse ==
    /\ pc = "fetch" /\ call = "generateSummary"
    /\ \/ \E r \in {JNull, JStr(<<"Key Takeaways">>)} : Return(r) /\ response' = OkResponse
       \/ \E f \in HttpFailures \cup {NoResponse} : Return(JNull) /\ response' = f
    /\ UNCHANGED <<scenario, cfgVars, call, depth, sendVars, roundVars, firstContent,
                   loopVars, events, parseVars, panelVars>>


(***************************************************************************)
(* The read loop, the tool round and the continuation                      *)
(***************************************************************************)
\* The lines the next reader.read() may deliver.
NextLines ==
    IF IsFreeRound THEN (IF linesRead < MaxLines THEN FreeLines ELSE {})
    ELSE IF stream # <<>> THEN {Head(stream)} ELSE {}

\* One reader.read() that delivers a line, and the for loop over it.
ReadLine ==
    /\ pc = "stream"
    /\ \E line \in NextLines :
          LET acc == ProcessLine(Fn, [fullContent |-> fullContent, toolCalls |-> toolCalls,
                                      emittedResponseStart |-> emittedResponseStart,
                                      events |-> events], line)
          IN /\ fullContent' = acc.fullContent
             /\ toolCalls' = acc.toolCalls
             /\ emittedResponseStart' = acc.emittedResponseStart
             /\ events' = acc.events
             /\ received' = Append(received, line)
    /\ stream' = IF IsFreeRound THEN stream ELSE Tail(stream)
    /\ linesRead' = linesRead + 1
    /\ UNCHANGED <<scenario, cfgVars, call, pc, depth, reqVars, firstContent, loopVars,
                   result, error, parseVars, panelVars>>

\* reader.read() reports done: the test for tool calls that follows the loop.
EndOfStream ==
    /\ pc = "stream"
    /\ IsFreeRound \/ stream = <<>>
    /\ IF HasNamedToolCall(toolCalls)
       THEN /\ pc' = "tools" /\ tcIdx' = 1 /\ toolResults' = <<>>
            /\ UNCHANGED <<result, error>>
       ELSE /\ Return(ParseResponse(fullContent))
            /\ UNCHANGED loopVars
    /\ UNCHANGED <<scenario, cfgVars, call, depth, reqVars, roundVars, firstContent,
                   events, parseVars, panelVars>>

\* The catch (e) block of the tool loop: analyzeTextStream reports the error
\* with a search_complete event, continueWithToolResults does not.
ToolErrorEvents(fn, evs, content, message) ==
    IF fn = "analyzeTextStream"
    THEN Append(evs, Event(<<>>, content, "search_complete",
                           [error |-> message, results |-> <<>>]))
    ELSE evs
\* Variant: a catch block that pushes no tool message.
ToolFailedSkips(message) ==
    /\ events' = events /\ toolResults' = toolResults
    /\ tcIdx' = tcIdx + 1 /\ pc' = "tools"
\* catch (e) of the try around one tool call: the error goes into a tool message.
ToolFailed(message) ==
    /\ events' = ToolErrorEvents(Fn, events, fullContent, message)
    /\ toolResults' = Append(toolResults, ToolMessage(toolCalls[tcIdx].id, ErrorContent(message)))
    /\ tcIdx' = tcIdx + 1
    /\ pc' = "tools"

\* Variant: the search is started and the loop goes on without awaiting it.
StartsSearchDetached(idx) == [pc |-> "tools", tcIdx |-> idx + 1]
\* const result = await executeWebSearchTool(args): the loop waits at idx.
StartsSearch(idx) == [pc |-> "exec", tcIdx |-> idx]

\* One iteration of for (const toolCall of toolCalls), up to await executeWebSearchTool.
ToolIter ==
    /\ pc = "tools" /\ tcIdx <= Len(toolCalls)
    /\ LET tc == toolCalls[tcIdx] IN
       IF IsHole(tc)
       THEN /\ Throw(Err("TypeError", 0, "Cannot read properties of undefined"))
            /\ UNCHANGED <<events, loopVars>>
       ELSE IF tc.function.name # "web_search"
       THEN /\ tcIdx' = tcIdx + 1
            /\ UNCHANGED <<pc, events, toolResults, result, error>>
       ELSE LET args == JsonParse(tc.function.arguments) IN
            IF ~args.ok
            THEN ToolFailed("Unexpected end of JSON input") /\ UNCHANGED <<result, error>>
            ELSE IF args.val.t = "null"
            THEN ToolFailed("Cannot read properties of null") /\ UNCHANGED <<result, error>>
            ELSE /\ events' = Append(events, Event(<<>>, fullContent, "search_start",
                                                   [query |-> Get(args.val, "query")]))
                 /\ pc' = StartsSearch(tcIdx).pc
                 /\ tcIdx' = StartsSearch(tcIdx).tcIdx
                 /\ UNCHANGED <<toolResults, result, error>>
    /\ UNCHANGED <<scenario, cfgVars, call, depth, reqVars, roundVars, firstContent, parseVars, panelVars>>

\* await executeWebSearchTool(args) settles: the rest of the try block.
ExecReturn ==
    /\ pc = "exec"
    /\ \E outcome \in (IF scenario = "rounds" THEN SearchOutcomes ELSE {"results"}) :
          LET text == ExecuteWebSearchTool(JsonParse(toolCalls[tcIdx].function.arguments).val,
                                           outcome)
          IN /\ events' = Append(events, Event(<<>>, fullContent, "search_complete",
                                               [results |-> ParsedResults(text)]))
             /\ toolResults' = Append(toolResults, ToolMessage(toolCalls[tcIdx].id, JStr(text)))
             /\ tcIdx' = tcIdx + 1
             /\ pc' = "tools"
    /\ UNCHANGED <<scenario, cfgVars, call, depth, reqVars, roundVars, firstContent,
                   result, error, parseVars, panelVars>>

\* Variant: the tool results spread in before the assistant message.
ContinuationMessagesResultsFirst(svc, existing, tcs, results) ==
    (IF existing # <<>> THEN existing ELSE InitialMessages(svc, OriginalText))
    \o results \o <<AssistantMessage(tcs)>>
\* The messages continueWithToolResults sends: existingMessages extended, or
\* (first continuation, existingMessages = null) built again from this.
ContinuationMessages(svc, existing, tcs, results) ==
    (IF existing # <<>> THEN existing ELSE InitialMessages(svc, OriginalText))
    \o <<AssistantMessage(tcs)>> \o results

\* Variant: the depth test written with > for >=.
DepthExceededLate(d) == d > MAX_TOOL_DEPTH
\* if (depth >= MAX_TOOL_DEPTH)
DepthExceeded(d) == d >= MAX_TOOL_DEPTH

\* The tool loop is over: continueWithToolResults(..., depth, messages) up to
\* its await fetch, or parseResponse when no tool produced a result.
ToolsDone ==
    /\ pc = "tools" /\ tcIdx > Len(toolCalls)
    /\ IF toolResults = <<>>
       THEN /\ Return(ParseResponse(fullContent))
            /\ UNCHANGED <<depth, reqVars, roundVars, firstContent>>
       ELSE /\ depth' = depth + 1
            /\ firstContent' = IF depth < 0 THEN fullContent ELSE firstContent
            /\ IF DepthExceeded(depth + 1)
               THEN Return(MaxDepthReport) /\ UNCHANGED <<reqVars, roundVars>>
               ELSE /\ messages' = ContinuationMessages(this, IF depth < 0 THEN <<>> ELSE messages,
                                                        toolCalls, toolResults)
                    /\ prevMessages' = messages
                    /\ requests' = requests + 1
                    /\ response' = NoResponse
                    /\ pc' = "fetch"
                    /\ UNCHANGED <<roundVars, result, error>>
    /\ UNCHANGED <<scenario, cfgVars, call, loopVars, events, parseVars, panelVars>>


(***************************************************************************)
(* The history store: saveHistory of the storage module and of sidepanel.js *)
(***************************************************************************)
\* if (history.length > 50)
HISTORY_MAX == 50
\* saveHistory calls in one behaviour.
MaxHistorySaves == 3
\* Milliseconds the clock may advance.
MaxClock == 2

\* The checks that save to the history: one per tab that has a check running.
HistoryCallers == {"tabA", "tabB"}
HistoryUrls == {"https://a.example", "https://b.example"}
HistoryImpls == {"storage", "sidepanel"}

\* { id: Date.now(), ...item, timestamp: Date.now() } of the storage module,
\* { id: Date.now(), ...historyData } of sidepanel.js.
NewHistoryItem(impl, t, item) ==
    IF impl = "storage" THEN [id |-> t, url |-> item.url, timestamp |-> t]
    ELSE [id |-> t, url |-> item.url]

\* A stored history of n items saved before the clock of the model started,
\* the newest first.
OldHistory(impl, n) ==
    [i \in 1..n |-> NewHistoryItem(impl, 0 - i, [url |-> "https://old.example"])]

\* Variant: a list that is never cut.
TrimHistoryNever(impl, list) == list

\* if (history.length > 50) history.pop()  /  factCheckHistory.splice(50)
TrimHistory(impl, list) ==
    IF Len(list) > HISTORY_MAX
    THEN IF impl = "storage" THEN SubSeq(list, 1, Len(list) - 1)
         ELSE SubSeq(list, 1, HISTORY_MAX)
    ELSE list

\* history.unshift(newItem), the cut, and the list handed to storage.local.set.
HistoryToStore(impl, t, item, list) ==
    TrimHistory(impl, <<NewHistoryItem(impl, t, item)>> \o list)

\* returned: what the caller's latest saveHistory returned (the new item), if
\* it stored one.
NoHistoryCall == [pc |-> "idle", item |-> [url |-> ""], list |-> <<>>, returned |-> <<>>]

\* saveHistory(item) up to its first await: the stored list is read.
SaveHistoryCall(p, u) ==
    /\ scenario = "history"
    /\ hLocal[p].pc = "idle" /\ hSaves < MaxHistorySaves
    /\ hLocal' = [hLocal EXCEPT ![p] = [pc |-> "read", item |-> [url |-> u], list |-> history,
                                       returned |-> <<>>]]
    /\ hSaves' = hSaves + 1
    /\ UNCHANGED <<scenario, sessionVars, parseVars, panel, web, cacheVars, hImpl, history, now>>

\* The rest of saveHistory: the new item goes first, the list is cut and stored.
SaveHistoryWrite(p) ==
    /\ scenario = "history"
    /\ hLocal[p].pc = "read"
    /\ history' = HistoryToStore(hImpl, now, hLocal[p].item, hLocal[p].list)
    /\ hLocal' = [hLocal EXCEPT ![p] = [NoHistoryCall EXCEPT
                                          !.returned = <<NewHistoryItem(hImpl, now, hLocal[p].item)>>]]
    /\ UNCHANGED <<scenario, sessionVars, parseVars, panel, web, cacheVars, hImpl, now, hSaves>>

\* chrome.storage.local.set rejects (quota): the catch block logs the error.
SaveHistoryFails(p) ==
    /\ scenario = "history"
    /\ hLocal[p].pc = "read"
    /\ hLocal' = [hLocal EXCEPT ![p] = NoHistoryCall]
    /\ UNCHANGED <<scenario, sessionVars, parseVars, panel, web, cacheVars, hImpl, history, now, hSaves>>

\* A millisecond passes.
Tick ==
    /\ scenario = "history"
    /\ now < MaxClock
    /\ now' = now + 1
    /\ UNCHANGED <<scenario, sessionVars, parseVars, panel, web, cacheVars, hImpl, history, hLocal, hSaves>>

HistoryIdle ==
    /\ hImpl = "storage" /\ history = <<>> /\ now = 0
    /\ hLocal = [p \in HistoryCallers |-> NoHistoryCall] /\ hSaves = 0

(***************************************************************************)
(* The result cache and the page check that uses it                        *)
(***************************************************************************)
\* const CACHE_DURATION = 24 * 60 * 60 * 1000
CACHE_DURATION == 24 * 60 * 60 * 1000
\* Page checks in one behaviour.
MaxChecks == 3
\* Jumps of the clock between checks.
MaxAdvances == 2

CheckImpls == {"part_008", "check.js"}
\* Page texts: head is the first 5000 characters, tail what follows them.
Contents == { [head |-> "h1", tail |-> ""], [head |-> "h1", tail |-> "more"],
              [head |-> "h2", tail |-> ""] }
NoEntry == [t |-> "none"]

\* generateCacheKey(content): a hash of content.substring(0, 5000).
GenerateCacheKey(content) == <<"fc_", content.head>>
CacheKeys == {GenerateCacheKey(c) : c \in Contents}

\* Variant: an entry never expires and is never read.
GetFromCacheNever(store, key, t) == NoEntry

\* getFromCache(key): the item when it is younger than CACHE_DURATION, else null.
GetFromCache(store, key, t) ==
    IF store[key] # NoEntry /\ (t - store[key].timestamp) < CACHE_DURATION
    THEN store[key] ELSE NoEntry

\* saveToCache(key, data): cache[key] = { ...data, timestamp: Date.now() }
SaveToCache(store, key, data, t) ==
    [store EXCEPT ![key] = [report |-> data, timestamp |-> t]]

\* The report the model gives to its n-th analysis request.
FreshReport(n, content) == [id |-> n, content |-> content]

\* The Check button (forceRefresh false) or the Recheck / Refresh button (true):
\* handleCheckWithProgress up to the end of extractContent.
CheckStart(content, force) ==
    /\ scenario = "cache"
    /\ cPc \in {"idle", "done"} /\ cChecks < MaxChecks
    /\ cPc' = "extracted"
    /\ cCheck' = [content |-> content, force |-> force, requests |-> cRequests,
                  prev |-> cFresh[content], at |-> now]
    /\ cChecks' = cChecks + 1
    /\ UNCHANGED <<scenario, sessionVars, parseVars, panel, web, historyVars,
                   cApi, cImpl, cache, cRequests, cShown, cFresh, cAdv>>

\* part_008: if (!forceRefresh) { cached = await getFromCache(cacheKey) ... };
\* check.js goes from the extracted content straight to the prompt.
CheckCacheLookup ==
    /\ scenario = "cache" /\ cPc = "extracted"
    /\ LET cached == IF cImpl = "part_008" /\ ~cCheck.force
                     THEN GetFromCache(cache, GenerateCacheKey(cCheck.content), now)
                     ELSE NoEntry
       IN IF cached # NoEntry
          THEN cPc' = "done" /\ cShown' = [report |-> cached.report, cached |-> TRUE]
          ELSE cPc' = "analyze" /\ cShown' = cShown
    /\ UNCHANGED <<scenario, sessionVars, parseVars, panel, web, historyVars,
                   cApi, cImpl, cache, cCheck, cRequests, cFresh, cChecks, cAdv>>

\* The model answers; part_008 saves the report to the cache, check.js does not.
CheckAnalyzed ==
    /\ scenario = "cache" /\ cPc = "analyze"
    /\ LET report == FreshReport(cRequests + 1, cCheck.content) IN
       /\ cRequests' = cRequests + 1
       /\ cache' = IF cImpl = "part_008"
                   THEN SaveToCache(cache, GenerateCacheKey(cCheck.content), report, now)
                   ELSE cache
       /\ cShown' = [report |-> report, cached |-> FALSE]
       /\ cFresh' = [cFresh EXCEPT ![cCheck.content] = [report |-> report, at |-> now]]
    /\ cPc' = "done"
    /\ UNCHANGED <<scenario, sessionVars, parseVars, panel, web, historyVars,
                   cApi, cImpl, cCheck, cChecks, cAdv>>

\* The request to the model fails: catch (error) shows the error.
CheckFailed ==
    /\ scenario = "cache" /\ cPc = "analyze"
    /\ cRequests' = cRequests + 1
    /\ cShown' = NoEntry
    /\ cPc' = "done"
    /\ UNCHANGED <<scenario, sessionVars, parseVars, panel, web, historyVars,
                   cApi, cImpl, cache, cCheck, cFresh, cChecks, cAdv>>

\* The Clear cache button of the settings: chrome.storage.local.remove(CACHE_KEY).
ClearCache ==
    /\ scenario = "cache" /\ cPc \in {"idle", "done"}
    /\ cache # [k \in CacheKeys |-> NoEntry]
    /\ cache' = [k \in CacheKeys |-> NoEntry]
    /\ cFresh' = [c \in Contents |-> NoEntry]
    /\ UNCHANGED <<scenario, sessionVars, parseVars, panel, web, historyVars,
                   cApi, cImpl, cPc, cCheck, cRequests, cShown, cChecks, cAdv>>

\* Time passes between two checks: a millisecond, or a millisecond less than
\* the life of a cache entry.
AdvanceClock(d) ==
    /\ scenario = "cache" /\ cPc \in {"idle", "done"}
    /\ cAdv < MaxAdvances
    /\ now' = now + d /\ cAdv' = cAdv + 1
    /\ UNCHANGED <<scenario, sessionVars, parseVars, panel, web, hImpl, history, hLocal, hSaves,
                   cApi, cImpl, cache, cPc, cCheck, cRequests, cShown, cFresh, cChecks>>

\* clearCacheEntry(key): delete cache[key]
ClearCacheEntry(store, key) == [store EXCEPT ![key] = NoEntry]
\* chrome.storage.local.remove(CACHE_KEY); a later read gives {}.
EmptyCache == [k \in CacheKeys |-> NoEntry]

\* Calls of the cache functions in one behaviour.
MaxApiCalls == 3
\* Who calls them: the page check, the selection check, the settings page.
CacheCallers == {"page", "selection"}
CacheOps == {"getFromCache", "saveToCache", "clearCacheEntry", "clearCache"}
NoApiCall == [pc |-> "idle", op |-> "none", key |-> <<>>, data |-> 0, pending |-> EmptyCache,
              entry |-> NoEntry, out |-> NoEntry, was |-> NoEntry, at |-> 0]
\* calls: the call of each caller (was, at: for a read, the saved entry of its
\* key and the time when it returned); saved: per key, the entry of the latest
\* completed saveToCache that no completed clearCacheEntry or clearCache has
\* followed; overlapped: two calls have been under way at once.
NoApi == [calls |-> [p \in CacheCallers |-> NoApiCall], saved |-> EmptyCache,
          overlapped |-> FALSE, made |-> 0]

ApiStep(a) ==
    /\ cApi' = a
    /\ UNCHANGED <<scenario, sessionVars, parseVars, panel, web, hImpl, history, hLocal, hSaves,
                   cImpl, cPc, cCheck, cRequests, cShown, cFresh, cChecks>>
\* A cache function is called and runs up to its first await.
ApiCalled(p, op, key) ==
    /\ scenario = "store"
    /\ cApi.calls[p].pc = "idle" /\ cApi.made < MaxApiCalls
    /\ ApiStep([cApi EXCEPT !.calls[p] = [NoApiCall EXCEPT !.pc = IF op = "clearCache" THEN "writing"
                                                                 ELSE "reading",
                                                          !.op = op, !.key = key,
                                                          !.data = cApi.made + 1],
                            !.made = @ + 1,
                            !.overlapped = @ \/ \E q \in CacheCallers : cApi.calls[q].pc # "idle"])
    /\ UNCHANGED <<cache, now, cAdv>>
\* chrome.storage.local.get resolves: getFromCache returns; saveToCache and
\* clearCacheEntry change their copy of the cache and hand it to set().
ApiRead(p) ==
    LET c == cApi.calls[p] IN
    /\ scenario = "store" /\ c.pc = "reading"
    /\ ApiStep([cApi EXCEPT !.calls[p] =
          IF c.op = "getFromCache"
          THEN [c EXCEPT !.pc = "idle", !.out = GetFromCache(cache, c.key, now),
                         !.was = cApi.saved[c.key], !.at = now]
          ELSE IF c.op = "saveToCache"
          THEN LET written == SaveToCache(cache, c.key, c.data, now)
               IN [c EXCEPT !.pc = "writing", !.pending = written, !.entry = written[c.key]]
          ELSE [c EXCEPT !.pc = "writing", !.pending = ClearCacheEntry(cache, c.key)]])
    /\ UNCHANGED <<cache, now, cAdv>>
\* chrome.storage.local.set, or remove, takes effect and the function returns.
ApiWritten(p) ==
    LET c == cApi.calls[p] IN
    /\ scenario = "store" /\ c.pc = "writing"
    /\ cache' = IF c.op = "clearCache" THEN EmptyCache ELSE c.pending
    /\ ApiStep([cApi EXCEPT !.calls[p] = [c EXCEPT !.pc = "idle"],
                            !.saved = IF c.op = "clearCache" THEN EmptyCache
                                      ELSE IF c.op = "saveToCache" THEN [@ EXCEPT ![c.key] = c.entry]
                                      ELSE [@ EXCEPT ![c.key] = NoEntry]])
    /\ UNCHANGED <<now, cAdv>>
\* Time passes: a millisecond, or a millisecond less than the life of an entry.
ApiClock(d) ==
    /\ scenario = "store"
    /\ cAdv < MaxAdvances
    /\ now' = now + d /\ cAdv' = cAdv + 1
    /\ UNCHANGED <<scenario, sessionVars, parseVars, panel, web, hImpl, history, hLocal, hSaves,
                   cImpl, cache, cPc, cCheck, cRequests, cShown, cFresh, cChecks, cApi>>

NoCheck == [content |-> [head |-> "", tail |-> ""], force |-> FALSE, requests |-> 0,
            prev |-> NoEntry, at |-> 0]
CacheIdle ==
    /\ cImpl = "check.js" /\ cache = [k \in CacheKeys |-> NoEntry]
    /\ cPc = "idle" /\ cCheck = NoCheck /\ cRequests = 0 /\ cShown = NoEntry
    /\ cFresh = [c \in Contents |-> NoEntry] /\ cChecks = 0 /\ cAdv = 0
    /\ cApi = NoApi

(***************************************************************************)
(* The side panel: tab states, tab events and the page check of check.js   *)
(***************************************************************************)
\* Page checks started in one behaviour.
MaxPanelChecks == 2
\* Tab activations in one behaviour.
MaxSwitches == 3
\* Navigations in one behaviour.
MaxNavigations == 1
\* Clock advances in one behaviour.
MaxTicks == 3

PanelTabs == {"A", "B"}
\* The page a tab shows: the tab and the number of navigations it has made.
Page(t, n) == [tab |-> t, n |-> n]
NoPage == [tab |-> "", n |-> 0]
NoReport == [t |-> "none"]

\* const substeps = { detect, extract, prompt, search, processing, report, summary }
NewSubsteps ==
    [extract |-> "active", prompt |-> "pending", search |-> "pending",
     processing |-> "pending", report |-> "pending", summary |-> "pending",
     queries |-> <<>>, results |-> <<>>]
NoSubsteps ==
    [extract |-> "pending", prompt |-> "pending", search |-> "pending",
     processing |-> "pending", report |-> "pending", summary |-> "pending",
     queries |-> <<>>, results |-> <<>>]

\* An entry of tabStates; check is the check that wrote it (0: no check).
TabState(status, step, sub, content, report, check) ==
    [status |-> status, step |-> step, sub |-> sub, content |-> content,
     report |-> report, check |-> check]
NoTabState == TabState("none", "", NoSubsteps, NoPage, NoReport, 0)
\* setTabIdle(tabId): saveTabState(tabId, { status: 'idle' })
IdleTabState == TabState("idle", "", NoSubsteps, NoPage, NoReport, 0)

\* What the panel shows. kind: the container on display (idle: the Check
\* button alone); tab and check: whose data the container was filled with;
\* step and sub: the progress steps as drawn; info: the tab named in the
\* report header; list: the history items drawn in the History tab.
View(kind, checkBtn, tab, check, step, sub, report, info, list) ==
    [kind |-> kind, checkBtn |-> checkBtn, tab |-> tab, check |-> check, step |-> step,
     sub |-> sub, report |-> report, info |-> info, list |-> list]

\* The events analyzeTextStream hands to onChunk, in the order it emits them.
Thinking == [type |-> "thinking", query |-> "", results |-> <<>>]
SearchStart(q) == [type |-> "search_start", query |-> q, results |-> <<>>]
SearchComplete(rs) == [type |-> "search_complete", query |-> "", results |-> rs]
ResponseStart == [type |-> "response_start", query |-> "", results |-> <<>>]
ResultOf(q) == [title |-> q, url |-> q]
\* No tool call; two tool rounds of one search each, the second search with
\* four results.
EventScripts ==
    { <<Thinking>>,
      <<SearchStart("x"), SearchComplete(<<ResultOf("x")>>),
        SearchStart("y"),
        SearchComplete(<<ResultOf("y1"), ResultOf("y2"), ResultOf("y3"), ResultOf("y4")>>),
        ResponseStart>> }

\* One tool round with content before and after it.
TimedScript ==
    <<Thinking, Thinking, SearchStart("x"), SearchComplete(<<ResultOf("x")>>),
      ResponseStart, Thinking, Thinking>>

\* A continuation that answers and then asks for one more search.
SecondRoundScript ==
    <<SearchStart("x"), SearchComplete(<<ResultOf("x")>>), ResponseStart, Thinking,
      SearchStart("y"), SearchComplete(<<ResultOf("y")>>), ResponseStart>>

\* A run of handleCheckWithProgress: its factCheckTabId, where it stands, its
\* substeps object, the content it extracted, the events still to come and the
\* events delivered, and its analysisResult.
NoPanelCheck ==
    [tab |-> "", pc |-> "none", sub |-> NoSubsteps, content |-> NoPage,
     script |-> <<>>, seen |-> <<>>, result |-> NoReport, url |-> NoPage, startedOn |-> NoPage,
     lastStateSave |-> 0, writes |-> <<>>]

\* saveTabState(tabId, state)
SaveTabState(p, t, st) == [p EXCEPT !.tabStates[t] = st]
\* setTabResult(tabId, score, report, content, prompt, isYouTube)
SetTabResult(p, t, report, content, c) ==
    SaveTabState(p, t, TabState("result", "", NoSubsteps, content, report, c))
\* setTabIdle(tabId)
SetTabIdle(p, t) == SaveTabState(p, t, IdleTabState)
\* setTabProgress(tabId, { substeps, isYouTube })
SetTabProgress(p, t, sub, c) ==
    SaveTabState(p, t, TabState("progress", "extract", sub, NoPage, NoReport, c))
\* updateTabProgress(tabId, data): the data is merged into the progress state
\* of the tab; a tab that is not in progress is left as it is.
UpdateTabProgress(p, t, step, sub, content, c) ==
    IF p.tabStates[t].status = "progress"
    THEN SaveTabState(p, t, TabState("progress",
                                     IF step = "" THEN p.tabStates[t].step ELSE step,
                                     sub,
                                     IF content = NoPage THEN p.tabStates[t].content ELSE content,
                                     NoReport, c))
    ELSE p

\* restoreProgress(savedState): the container and the steps drawn from the state.
RestoreProgress(p, t, st) ==
    [p EXCEPT !.view = View("progress", FALSE, t, st.check, st.step, st.sub,
                            NoReport, p.view.info, p.view.list)]

\* restoreTabState(tabId) from its call to its first await or its end.
RECURSIVE RestoreTabState(_, _)
RestoreTabState(p, t) ==
    IF p.isRestoringState THEN p
    ELSE LET st == p.tabStates[t]
             \* FORCE RESET UI FIRST
             reset == [p EXCEPT !.view = View("idle", TRUE, t, 0, "", NoSubsteps, NoReport,
                                              "", p.view.list)]
         IN IF st.status \in {"none", "idle"}
            THEN [reset EXCEPT !.isRestoringState = TRUE,
                               !.restores = @ \cup {[tab |-> t, pc |-> "getTab", page |-> NoPage]}]
            ELSE IF st.status = "progress"
            THEN RestoreProgress(reset, t, st)
            ELSE [reset EXCEPT !.isRestoringState = TRUE,
                               !.currentContent = st.content,
                               !.currentPrompt = st.content,
                               !.view = View("result", FALSE, t, st.check, "", NoSubsteps,
                                             st.report, "", p.view.list),
                               !.restores = @ \cup {[tab |-> t, pc |-> "info", page |-> NoPage]}]

\* getUrlResult(url): the newest history item of the page, if any (the
\* items of a page are told apart by the check that saved them).
GetUrlResult(p, page) ==
    IF \E h \in p.urlHistory : h.url = page
    THEN CHOOSE h \in p.urlHistory :
            h.url = page /\ \A g \in p.urlHistory : g.url = page => g.check <= h.check
    ELSE [url |-> NoPage, content |-> NoPage, report |-> NoReport, check |-> 0]

\* restoreTabState resumes after an await.
RestoreResume(p, r) ==
    LET rest == [p EXCEPT !.restores = @ \ {r}] IN
    IF r.pc = "getTab"
    THEN [rest EXCEPT !.restores = @ \cup {[r EXCEPT !.pc = "getUrl",
                                                     !.page = Page(r.tab, p.tabUrl[r.tab])]}]
    ELSE IF r.pc = "getUrl"
    THEN LET saved == GetUrlResult(p, r.page) IN
         IF saved.report # NoReport
         THEN \* the result is put into the tab state, the lock is opened for
              \* the call of restoreTabState, and finally opens it once more
              LET inner == RestoreTabState(
                              [SetTabResult(rest, r.tab, saved.report, saved.content, saved.check)
                                  EXCEPT !.isRestoringState = FALSE], r.tab)
              IN [inner EXCEPT !.isRestoringState = FALSE]
         ELSE [rest EXCEPT !.isRestoringState = FALSE]
    ELSE \* "info": updateReportInfo(tab.title, ...), then finally
         [rest EXCEPT !.view.info = r.tab, !.isRestoringState = FALSE]

\* handleTabChange(activeInfo)
HandleTabChange(p, t) ==
    RestoreTabState([p EXCEPT !.currentTabId = t, !.switches = @ + 1], t)

\* handleTabUpdate(tabId, { status: 'loading', url }, tab)
HandleTabUpdate(p, t) ==
    LET q == SetTabIdle([p EXCEPT !.tabUrl[t] = @ + 1, !.navs = @ + 1], t) IN
    IF t = p.currentTabId THEN RestoreTabState(q, t) ELSE q

\* isCurrent(): state.currentTabId === factCheckTabId
IsCurrent(p, c) == p.currentTabId = p.checks[c].tab
\* updateUI(fn): q is p after fn has run
UpdateUI(p, c, q) == IF IsCurrent(p, c) THEN q ELSE p
\* The progress steps as the check draws them.
DrawSteps(p, c, step, sub) == [p EXCEPT !.view.step = step, !.view.sub = sub, !.view.check = c]
\* Content that trims to the empty string.
BlankContent == [tab |-> "blank", n |-> 0]
\* The check moves on / changes its substeps object.
AtPc(p, c, at) == [p EXCEPT !.checks[c].pc = at]
WithSub(p, c, sub) == [p EXCEPT !.checks[c].sub = sub]

\* catch (error): progress.stopTimer(); updateUI(() => { updateStep('analyze', 'error'); showError(...) })
CheckCatch(p, c) ==
    LET q == [p EXCEPT !.timer = FALSE] IN
    AtPc(UpdateUI(q, c, [q EXCEPT !.view.kind = "error", !.view.step = "error",
                                  !.view.check = c]), c, "failed")

\* The click on the Check or Recheck button up to the first await of
\* handleCheckWithProgress.
CheckClicked(p, c) ==
    LET t == p.currentTabId
        shown == [p EXCEPT !.view = View("progress", FALSE, t, c, "extract", NewSubsteps,
                                         NoReport, p.view.info, p.view.list),
                           !.timer = TRUE,
                           !.checks[c] = [NoPanelCheck EXCEPT !.tab = t, !.pc = "extract",
                                                              !.sub = NewSubsteps,
                                                              !.startedOn = Page(t, p.tabUrl[t])]]
    IN SetTabProgress(shown, t, NewSubsteps, c)

\* extractContent resolves: from setCurrentContent to await progress.delay(200).
\* The content is that of the active tab.
CheckExtractedTo(p, c, blank) ==
    LET t == p.checks[c].tab
        content == IF blank THEN BlankContent
                   ELSE Page(p.currentTabId, p.tabUrl[p.currentTabId])
        p1 == [p EXCEPT !.currentContent = content, !.checks[c].content = content]
        sub1 == [p.checks[c].sub EXCEPT !.extract = "complete"]
        p2 == UpdateTabProgress(WithSub(p1, c, sub1), t, "extract", sub1, content, c)
        p3 == UpdateUI(p2, c, DrawSteps(p2, c, "extract", sub1))
        sub2 == [sub1 EXCEPT !.prompt = "active"]
        p4 == UpdateTabProgress(WithSub(p3, c, sub2), t, "prompt", sub2, NoPage, c)
        p5 == UpdateUI(p4, c, DrawSteps(p4, c, "prompt", sub2))
        p6 == [p5 EXCEPT !.currentPrompt = content]
        sub3 == [sub2 EXCEPT !.prompt = "complete"]
        p7 == UpdateTabProgress(WithSub(p6, c, sub3), t, "", sub3, NoPage, c)
        p8 == UpdateUI(p7, c, DrawSteps(p7, c, "prompt", sub3))
    IN IF blank THEN CheckCatch(p2, c) ELSE AtPc(p8, c, "delay200")

\* progress.delay(200) is over: step 3 starts and analyzeTextStream is called.
CheckStreamStarted(p, c, script) ==
    LET t == p.checks[c].tab
        sub == [p.checks[c].sub EXCEPT !.search = "active"]
        p1 == UpdateTabProgress(WithSub(p, c, sub), t, "analyze", sub, NoPage, c)
        p2 == UpdateUI(p1, c, DrawSteps(p1, c, "analyze", sub))
    IN [AtPc(p2, c, "stream") EXCEPT !.checks[c].script = script]

\* The first three of a list: eventData.results.slice(0, 3)
FirstThree(rs) == SubSeq(rs, 1, IF Len(rs) < 3 THEN Len(rs) ELSE 3)
\* queries[queries.length - 1].status = 'complete'
LastQueryComplete(qs) ==
    IF Len(qs) > 0 THEN [qs EXCEPT ![Len(qs)].status = "complete"] ELSE qs

\* The least time between two throttled saves, in milliseconds.
SAVE_INTERVAL == 2000
\* A call of updateTabProgress from the onChunk callback; the check keeps the
\* times of these calls.
StreamWrite(p, c, step, sub) ==
    [UpdateTabProgress(p, p.checks[c].tab, step, sub, NoPage, c)
        EXCEPT !.checks[c].writes = Append(@, p.clock)]
\* throttledStateSave(): if (now - lastStateSave > 2000) { lastStateSave = now; updateTabProgress }
ThrottledStateSave(p, c) ==
    IF p.clock - p.checks[c].lastStateSave > SAVE_INTERVAL
    THEN StreamWrite([p EXCEPT !.checks[c].lastStateSave = p.clock], c, "", p.checks[c].sub)
    ELSE p

\* The body of the onChunk callback, which runs under updateUI as a whole.
OnChunkBody(p, c, e) ==
    LET t == p.checks[c].tab
        sub == p.checks[c].sub
    IN IF e.type = "thinking"
       THEN \* substeps.processing.content = fullText; throttledStateSave()
            ThrottledStateSave(p, c)
       ELSE IF e.type = "search_start"
       THEN LET s == [sub EXCEPT !.search = "active",
                                 !.queries = Append(@, [query |-> e.query, status |-> "pending"])]
                q == DrawSteps(WithSub(p, c, s), c, p.view.step, s)
            IN StreamWrite(q, c, "", s)
       ELSE IF e.type = "search_complete"
       THEN LET s == [sub EXCEPT !.queries = LastQueryComplete(@),
                                 !.results = @ \o FirstThree(e.results)]
                q == DrawSteps(WithSub(p, c, s), c, p.view.step, s)
            IN StreamWrite(q, c, "", s)
       ELSE \* response_start
            LET s == [sub EXCEPT !.search = "complete", !.processing = "active"]
                q == StreamWrite(WithSub(p, c, s), c, "complete", s)
            IN DrawSteps(q, c, "complete", s)

\* analyzeTextStream calls onChunk with its next event.
CheckEventTo(p, c) ==
    LET e == Head(p.checks[c].script)
        q == [p EXCEPT !.checks[c].script = Tail(@), !.checks[c].seen = Append(@, e)]
    IN UpdateUI(q, c, OnChunkBody(q, c, e))

\* The report analyzeTextStream resolves to.
PanelReport(c) == [t |-> "report", check |-> c, searchQueries |-> <<>>, searchSources |-> <<>>]

\* analyzeTextStream resolves: up to await progress.delay(150).
CheckStreamReturned(p, c) ==
    LET t == p.checks[c].tab
        p1 == UpdateUI(p, c, DrawSteps(p, c, "analyze", [p.checks[c].sub EXCEPT !.search = "complete"]))
        sub == [p.checks[c].sub EXCEPT !.processing = "complete", !.report = "active"]
        p2 == UpdateTabProgress(WithSub(p1, c, sub), t, "complete", sub, NoPage, c)
        p3 == UpdateUI(p2, c, DrawSteps(p2, c, "complete", sub))
    IN [AtPc(p3, c, "delay150") EXCEPT !.checks[c].result = PanelReport(c)]

\* progress.delay(150) is over: up to await llmService.generateSummary.
CheckReportDone(p, c) ==
    LET t == p.checks[c].tab
        sub == [p.checks[c].sub EXCEPT !.report = "complete", !.summary = "active"]
        p1 == UpdateTabProgress(WithSub(p, c, sub), t, "", sub, NoPage, c)
        p2 == UpdateUI(p1, c, DrawSteps(p1, c, p1.view.step, sub))
    IN AtPc(p2, c, "summary")

\* generateSummary resolves or rejects: up to await chrome.tabs.get.
CheckSummarized(p, c) ==
    LET t == p.checks[c].tab
        sub == [p.checks[c].sub EXCEPT !.summary = "complete"]
        report == [p.checks[c].result EXCEPT !.searchSources = sub.results,
                                             !.searchQueries = sub.queries]
        p1 == [WithSub(p, c, sub) EXCEPT !.checks[c].result = report]
        p2 == UpdateTabProgress(p1, t, "", sub, NoPage, c)
    IN AtPc(p2, c, "tabInfo")

\* chrome.tabs.get resolves: setTabResult, the result on display, up to
\* await storage.saveHistory.
CheckResultStored(p, c) ==
    LET t == p.checks[c].tab
        ck == p.checks[c]
        p1 == [p EXCEPT !.checks[c].url = Page(t, p.tabUrl[t])]
        p2 == SetTabResult(p1, t, ck.result, ck.content, c)
        p3 == UpdateUI(p2, c, [p2 EXCEPT !.timer = FALSE,
                                         !.view = View("result", FALSE, t, c, "", NoSubsteps,
                                                       ck.result, t, p.view.list)])
    IN AtPc(p3, c, "saveHistory")

\* saveHistory resolves: renderHistoryList().
CheckHistorySaved(p, c) ==
    LET ck == p.checks[c]
        item == [url |-> ck.url, content |-> ck.content, report |-> ck.result, check |-> c]
        items == p.urlHistory \cup {item}
    IN [p EXCEPT !.checks[c] = [NoPanelCheck EXCEPT !.tab = ck.tab, !.pc = "done",
                                                     !.startedOn = ck.startedOn,
                                                     !.writes = ck.writes],
                 !.urlHistory = items,
                 !.view.list = {h.check : h \in items}]

\* The panel before anything happened: tab A has the focus, no tab has a
\* state, the Check button is on display.
NewPanel(items) ==
    [currentTabId |-> "A",
     tabUrl |-> [t \in PanelTabs |-> 0],
     tabStates |-> [t \in PanelTabs |-> NoTabState],
     isRestoringState |-> FALSE,
     restores |-> {},
     view |-> View("idle", TRUE, "A", 0, "", NoSubsteps, NoReport, "",
                   {h.check : h \in items}),
     timer |-> FALSE,
     currentContent |-> NoPage,
     currentPrompt |-> NoPage,
     checks |-> [c \in 1..MaxPanelChecks |-> NoPanelCheck],
     urlHistory |-> items,
     switches |-> 0,
     navs |-> 0,
     clock |-> SAVE_INTERVAL + 1,
     ticks |-> 0]
\* A history item of an earlier session for the page tab B shows.
OldItem ==
    [url |-> Page("B", 0), content |-> Page("B", 0),
     report |-> [t |-> "report", check |-> 0, searchQueries |-> <<>>, searchSources |-> <<>>],
     check |-> 0]
PanelUnused == panel = NewPanel({})

StartedChecks == {c \in 1..MaxPanelChecks : panel.checks[c].pc # "none"}
\* "panel": one check under tab switches and navigation; "recheck": checks
\* started one over the other on a tab that navigates and keeps the focus;
\* "timed": one check on a tab that keeps the focus, while time passes.
PanelScenarios == {"panel", "recheck", "timed"}
ChecksIn(sc) == IF sc = "recheck" THEN MaxPanelChecks ELSE 1
SwitchesIn(sc) == IF sc = "panel" THEN MaxSwitches ELSE 0
NavigationsIn(sc) == IF sc = "timed" THEN 0 ELSE MaxNavigations
TicksIn(sc) == IF sc = "timed" THEN MaxTicks ELSE 0
ScriptsIn(sc) ==
    IF sc = "recheck" THEN {<<Thinking>>}
    ELSE IF sc = "timed" THEN {TimedScript, SecondRoundScript}
    ELSE EventScripts
PanelStep(q) ==
    /\ panel' = q
    /\ UNCHANGED <<scenario, sessionVars, parseVars, historyVars, cacheVars, web>>

\* chrome.tabs.onActivated
TabActivated(t) ==
    /\ t # panel.currentTabId
    /\ panel.switches < SwitchesIn(scenario)
    /\ PanelStep(HandleTabChange(panel, t))

\* chrome.tabs.onUpdated with status 'loading' and a url
TabNavigated(t) ==
    /\ panel.navs < NavigationsIn(scenario)
    /\ PanelStep(HandleTabUpdate(panel, t))

\* Time passes: Date.now() grows by d milliseconds.
ClockAdvances(d) ==
    /\ panel.ticks < TicksIn(scenario)
    /\ PanelStep([panel EXCEPT !.clock = @ + d, !.ticks = @ + 1])

\* An await of restoreTabState resolves.
RestoreResumes(r) ==
    /\ r \in panel.restores
    /\ PanelStep(RestoreResume(panel, r))

\* The Check button or the Recheck button is clicked.
CheckButtonClicked ==
    /\ panel.view.checkBtn \/ panel.view.kind = "result"
    /\ Cardinality(StartedChecks) < ChecksIn(scenario)
    /\ PanelStep(CheckClicked(panel, Cardinality(StartedChecks) + 1))

ContentExtracted(c, blank) ==
    /\ panel.checks[c].pc = "extract"
    /\ PanelStep(CheckExtractedTo(panel, c, blank))

StreamStarts(c, script) ==
    /\ panel.checks[c].pc = "delay200"
    /\ PanelStep(CheckStreamStarted(panel, c, script))

OnChunk(c) ==
    /\ panel.checks[c].pc = "stream"
    /\ panel.checks[c].script # <<>>
    /\ PanelStep(CheckEventTo(panel, c))

\* analyzeTextStream rejects (no configuration, no usable response).
StreamRejects(c) ==
    /\ panel.checks[c].pc = "stream"
    /\ panel.checks[c].seen = <<>>
    /\ PanelStep(CheckCatch(panel, c))

StreamResolves(c) ==
    /\ panel.checks[c].pc = "stream"
    /\ panel.checks[c].script = <<>>
    /\ PanelStep(CheckStreamReturned(panel, c))

ReportDelayOver(c) ==
    /\ panel.checks[c].pc = "delay150"
    /\ PanelStep(CheckReportDone(panel, c))

SummaryDone(c) ==
    /\ panel.checks[c].pc = "summary"
    /\ PanelStep(CheckSummarized(panel, c))

TabInfoRead(c) ==
    /\ panel.checks[c].pc = "tabInfo"
    /\ PanelStep(CheckResultStored(panel, c))

HistorySaved(c) ==
    /\ panel.checks[c].pc = "saveHistory"
    /\ PanelStep(CheckHistorySaved(panel, c))

\* A step of check c after its start.
CheckContinues(c) ==
    \/ \E blank \in BOOLEAN : ContentExtracted(c, blank)
    \/ \E script \in ScriptsIn(scenario) : StreamStarts(c, script)
    \/ OnChunk(c)
    \/ StreamRejects(c)
    \/ StreamResolves(c)
    \/ ReportDelayOver(c)
    \/ SummaryDone(c)
    \/ TabInfoRead(c)
    \/ HistorySaved(c)

(***************************************************************************)
(* search() of the web search module                                       *)
(***************************************************************************)
\* A function call ends by returning a value or by throwing.
Returned(value) == [kind |-> "return", value |-> value, error |-> ""]
Thrown(message) == [kind |-> "throw", value |-> Undefined, error |-> message]

\* A string that is not well-formed UTF-16: encodeURIComponent throws on it.
LoneSurrogate == "\\uD800"
\* The values search() is called with as its query.
QueryValues ==
    { Undefined, JNull, JStr(<<>>), JStr(<<" ">>), JStr(<<"q">>), JStr(<<" ", "q", " ">>),
      JStr(<<LoneSurrogate>>), JNum("0"), JNum("5"), JArr(<<>>), JObj(<<>>) }
MaxResultsValues == {1, 5}

\* The anchors of a result page: a result, a link into duckduckgo.com, a
\* result whose title cleans to the empty string, a result whose uddg
\* parameter is malformed.
LinkKinds == {"result", "internal", "untitled", "malformed"}
MaxLinks == 2
Pages == UNION {[1..n -> LinkKinds] : n \in 0..MaxLinks}
\* What the request does: fetch rejects, the status is not 2xx,
\* response.text() rejects, or the page arrives.
FetchOutcomes ==
    {[kind |-> "network", status |-> 0, html |-> <<>>],
     [kind |-> "abort", status |-> 0, html |-> <<>>],
     [kind |-> "http", status |-> 403, html |-> <<>>],
     [kind |-> "http", status |-> 500, html |-> <<>>],
     [kind |-> "body", status |-> 200, html |-> <<>>]}
    \cup {[kind |-> "ok", status |-> 200, html |-> h] : h \in Pages}

\* parseLiteResults(html, maxResults)
RECURSIVE LiteItems(_)
LiteItems(html) ==
    IF html = <<>> THEN <<>>
    ELSE (IF Head(html) = "result" THEN <<[url |-> "u", title |-> "t"]>> ELSE <<>>)
         \o LiteItems(Tail(html))
ParseLiteResults(html, maxResults) ==
    IF \E i \in 1..Len(html) : html[i] = "malformed"
    THEN Thrown("URI malformed")
    ELSE LET items == LiteItems(html)
         IN Returned(SubSeq(items, 1, IF Len(items) < maxResults THEN Len(items) ELSE maxResults))

\* scrapeDuckDuckGoLite(query, maxResults, signal)
ScrapeDuckDuckGoLite(query, maxResults, outcome) ==
    IF \E i \in 1..Len(query) : query[i] = LoneSurrogate THEN Thrown("URI malformed")
    ELSE IF outcome.kind = "network" THEN Thrown("Failed to fetch")
    ELSE IF outcome.kind = "abort" THEN Thrown("The user aborted a request.")
    ELSE IF outcome.kind = "http" THEN Thrown("HTTP error")
    ELSE IF outcome.kind = "body" THEN Thrown("Failed to read body")
    ELSE ParseLiteResults(outcome.html, maxResults)

SearchResult(success, query, message, results) ==
    [success |-> success, query |-> query, error |-> message, results |-> results]
\* Variant: search() without its catch block.
SearchRethrown(cleanQuery, message) == Thrown(message)
\* catch (error) { return { success: false, query: cleanQuery, error: error.message, results: [] } }
SearchCaught(cleanQuery, message) ==
    Returned(SearchResult(FALSE, cleanQuery, message, <<>>))

\* search(query, maxResults, signal)
Search(query, maxResults, outcome) ==
    IF ~Truthy(query) \/ query.t # "str"
    THEN Returned(SearchResult(FALSE, <<>>, "Invalid search query", <<>>))
    ELSE LET cleanQuery == Trim(query.v)
             scraped == ScrapeDuckDuckGoLite(cleanQuery, maxResults, outcome)
         IN IF scraped.kind = "throw" THEN SearchCaught(cleanQuery, scraped.error)
            ELSE Returned(SearchResult(TRUE, cleanQuery, "", scraped.value))

NoSearchCall ==
    [pc |-> "idle", query |-> Undefined, maxResults |-> 0,
     outcome |-> [kind |-> "none", status |-> 0, html |-> <<>>], out |-> Returned(Undefined)]
WebUnused == web = NoSearchCall

WebStep(w) ==
    /\ web' = w
    /\ UNCHANGED <<scenario, sessionVars, parseVars, historyVars, cacheVars, panel>>
\* search() is called and runs up to its await of scrapeDuckDuckGoLite, or
\* to its end for a query it rejects.
SearchCalled ==
    /\ web.pc = "called"
    /\ WebStep(IF ~Truthy(web.query) \/ web.query.t # "str"
               THEN [web EXCEPT !.pc = "done",
                                !.out = Search(web.query, web.maxResults, web.outcome)]
               ELSE [web EXCEPT !.pc = "scraping"])
\* The request settles and search() returns.
SearchSettled ==
    /\ web.pc = "scraping"
    /\ WebStep([web EXCEPT !.pc = "done",
                           !.out = Search(web.query, web.maxResults, web.outcome)])

(***************************************************************************)
(* executeWebSearchTool and browsePage of the web search module            *)
(***************************************************************************)
\* Results a search may find.
MaxFound == 4
\* search(query, 5, signal)
TOOL_MAX_RESULTS == 5
\* text.substring(0, 1500)
BROWSE_CHARS == 1500

FoundResult(i, withSnippet) ==
    [title |-> <<"title", ToString(i)>>, url |-> <<"url", ToString(i)>>,
     snippet |-> IF withSnippet THEN <<"snippet", ToString(i)>> ELSE <<>>]
\* What search() resolves to for a query it accepts.
FoundLists ==
    {[i \in 1..n |-> FoundResult(i, sn)] : n \in 0..Min(MaxFound, TOOL_MAX_RESULTS), sn \in BOOLEAN}
SearchReturns(query) ==
    {SearchResult(FALSE, query, "Failed to fetch", <<>>)}
    \cup {SearchResult(TRUE, query, "", rs) : rs \in FoundLists}

\* The elements of a fetched page: a paragraph of more than 20 characters, a
\* shorter one, a script, text in an element the extraction does not select.
Element(kind, text) == [kind |-> kind, text |-> text]
PageBodies ==
    { <<>>,
      <<Element("para", "a long paragraph")>>,
      <<Element("short", "short"), Element("script", "var x")>>,
      <<Element("div", "loose text"), Element("para", "a long paragraph")>> }
\* How the top result's server behaves, and whether DOMParser works here.
PageBehaviour(fetch, ok, body, parser, html) ==
    [fetch |-> fetch, ok |-> ok, body |-> body, parser |-> parser, html |-> html]
PageBehaviours ==
    { PageBehaviour("rejects", FALSE, "none", "ok", <<>>),
      PageBehaviour("stalls", FALSE, "none", "ok", <<>>),
      PageBehaviour("responds", FALSE, "none", "ok", <<>>),
      PageBehaviour("responds", TRUE, "rejects", "ok", <<>>),
      PageBehaviour("responds", TRUE, "stalls", "ok", <<>>) }
    \cup {PageBehaviour("responds", TRUE, "arrives", ps, h) :
            ps \in {"ok", "throws", "undefined"}, h \in PageBodies}

\* doc.querySelectorAll(ContentSelectors): text of the long paragraphs, each
\* followed by a blank line.
RECURSIVE DomText(_)
DomText(html) ==
    IF html = <<>> THEN <<>>
    ELSE (IF Head(html).kind = "para" THEN <<Head(html).text, "\n\n">> ELSE <<>>)
         \o DomText(Tail(html))
\* cleanText(html): the tags go, all text stays, separated by single blanks.
RECURSIVE CleanText(_)
CleanText(html) ==
    IF html = <<>> THEN <<>>
    ELSE <<Head(html).text>> \o (IF Len(html) > 1 THEN <<" ">> ELSE <<>>) \o CleanText(Tail(html))
\* browsePage from the arrival of the body to its return.
ExtractContent(behaviour) ==
    IF behaviour.parser = "ok"
    THEN LET text == DomText(behaviour.html) IN Substring(text, 1, Min(BROWSE_CHARS, Len(text)))
    ELSE LET text == CleanText(behaviour.html) IN Substring(text, 1, Min(BROWSE_CHARS, Len(text)))
\* Variant: browsePage without its outer catch block.
BrowseRethrown(message) == Thrown(message)
\* catch (e) { console.warn(...); return ''; }
BrowseCaught(message) == Returned(<<>>)

\* detailedResults.forEach: one browsed entry.
DetailedEntry(index, r, content) ==
    <<"### ", ToString(index), ". ">> \o r.title \o <<"\n", "**URL:** ">> \o r.url \o <<"\n">>
    \o (IF r.snippet # <<>> THEN <<"**Snippet:** ">> \o r.snippet \o <<"\n">> ELSE <<>>)
    \o (IF content # <<>>
        THEN <<"**Extracted Content:**", "\n">> \o content \o <<"\n">>
        ELSE <<"(Could not extract content)", "\n">>)
    \o <<"\n", "---", "\n", "\n">>
\* otherResults.forEach(r => response += `- [${r.title}](${r.url})\n`)
RECURSIVE LinkLines(_)
LinkLines(rs) ==
    IF rs = <<>> THEN <<>>
    ELSE <<"- [">> \o Head(rs).title \o <<"](">> \o Head(rs).url \o <<")", "\n">>
         \o LinkLines(Tail(rs))
Slice(rs, from) == IF from >= Len(rs) THEN <<>> ELSE SubSeq(rs, from + 1, Len(rs))
\* executeWebSearchTool from the return of browsePage to its own return.
FormatResults(query, results, content) ==
    LET otherResults == Slice(results, 3)
    IN <<"**Web Search Results for ", QUOTE>> \o query \o <<QUOTE, ":**", "\n", "\n">>
       \o DetailedEntry(1, results[1], content)
       \o (IF Len(otherResults) > 0 THEN <<"**More results:**", "\n">> \o LinkLines(otherResults)
           ELSE <<>>)

NoToolCall ==
    [pc |-> "idle", query |-> Undefined, found |-> SearchResult(FALSE, <<>>, "", <<>>),
     behaviour |-> PageBehaviour("rejects", FALSE, "none", "ok", <<>>),
     timer |-> FALSE, browsed |-> Returned(Undefined), failure |-> "none",
     out |-> Returned(Undefined)]
ToolQueries == {Undefined, JStr(<<>>), JStr(<<"q">>), JNum("5")}

\* browsePage settles with what and the tool call runs to its end.
BrowseEnds(w, what, failure) ==
    [w EXCEPT !.pc = "done", !.browsed = what, !.failure = failure,
              !.out = IF what.kind = "throw" THEN what
                      ELSE Returned(FormatResults(w.query.v, w.found.results, what.value))]

\* executeWebSearchTool(args) runs up to its await of search().
ToolCalled ==
    /\ web.pc = "called"
    /\ WebStep(IF ~Truthy(web.query)
               THEN [web EXCEPT !.pc = "done", !.out = Returned(<<"Error: Search query is required">>)]
               ELSE [web EXCEPT !.pc = "searching"])
\* search() resolves; the tool starts browsing the top result: the timer is
\* armed and the page requested.
ToolSearched ==
    /\ web.pc = "searching"
    /\ WebStep(IF ~web.found.success \/ Len(web.found.results) = 0
               THEN [web EXCEPT !.pc = "done",
                                !.out = Returned(<<"No results found for: ", QUOTE>>
                                                 \o Stringify(web.query) \o <<QUOTE>>)]
               ELSE [web EXCEPT !.pc = "fetching", !.timer = TRUE])
\* fetch rejects: the network fails.
FetchRejects ==
    /\ web.pc = "fetching"
    /\ web.behaviour.fetch = "rejects"
    /\ WebStep(BrowseEnds(web, BrowseCaught("Failed to fetch"), "network"))
\* The timer fires: controller.abort() rejects a fetch that is still pending.
TimerFires ==
    /\ web.timer
    /\ WebStep(IF web.pc = "fetching"
               THEN BrowseEnds([web EXCEPT !.timer = FALSE], BrowseCaught("aborted"), "timeout")
               ELSE [web EXCEPT !.timer = FALSE])
\* The response headers arrive: clearTimeout(timeoutId); if (!response.ok) return ''
HeadersArrive ==
    /\ web.pc = "fetching"
    /\ web.behaviour.fetch = "responds"
    /\ WebStep(IF ~web.behaviour.ok
               THEN BrowseEnds([web EXCEPT !.timer = FALSE], Returned(<<>>), "status")
               ELSE [web EXCEPT !.pc = "reading", !.timer = FALSE])
\* response.text() resolves and the text is extracted.
BodyArrives ==
    /\ web.pc = "reading"
    /\ web.behaviour.body = "arrives"
    /\ WebStep(BrowseEnds(web, Returned(ExtractContent(web.behaviour)),
                          IF web.behaviour.parser = "throws" THEN "parse" ELSE "none"))
\* response.text() rejects.
BodyRejects ==
    /\ web.pc = "reading"
    /\ web.behaviour.body = "rejects"
    /\ WebStep(BrowseEnds(web, BrowseCaught("Failed to read body"), "body"))

\* The state of the parts a specification leaves alone.
ParseIdle ==
    /\ parseInput = <<>> /\ parseReport = Undefined
    /\ parseVariant = "llm" /\ parseOutput = NoResult
PanelIdle == HistoryIdle /\ CacheIdle /\ PanelUnused /\ WebUnused

(***************************************************************************)
(* Specification of the LLM service                                        *)
(***************************************************************************)
SessionInit ==
    /\ saves = 0 /\ this = ConstructedService
    /\ call = "none" /\ pc = "idle" /\ depth = -1
    /\ messages = <<>> /\ prevMessages = <<>> /\ requests = 0 /\ response = NoResponse
    /\ stream = <<>> /\ linesRead = 0 /\ received = <<>>
    /\ fullContent = <<>> /\ firstContent = <<>> /\ toolCalls = <<>>
    /\ emittedResponseStart = FALSE
    /\ tcIdx = 1 /\ toolResults = <<>>
    /\ events = <<>> /\ result = NoResult /\ error = NoError

Init ==
    /\ scenario \in Scenarios
    /\ storage \in (IF scenario = "settings" THEN StorageSet ELSE {DefaultStorage})
    /\ SessionInit
    /\ ParseIdle
    /\ PanelIdle

Next ==
    \/ \E m \in Methods : CallMethod(m)
    \/ LoadConfig
    \/ \E st \in StorageSet : SaveSettings(st)
    \/ ConcurrentLoadConfig
    \/ StreamResponse
    \/ HttpError
    \/ NetworkError
    \/ TextResponse
    \/ SummaryResponse
    \/ ReadLine
    \/ EndOfStream
    \/ ToolIter
    \/ ExecReturn
    \/ ToolsDone

Spec == Init /\ [][Next]_vars

(***************************************************************************)
(* Specification of parseResponse on its own                               *)
(***************************************************************************)
ScoreOptions == {Undefined, JNum("5"), JNum("0"), JNum("150"), JNum("-3"), JNum("7.9"),
                 JStr(<<"85">>), JStr(<<"high">>)}
VerdictOptions == {Undefined, JStr(<<"FALSE">>), JStr(<<>>)}
SummaryOptions == {Undefined, JStr(<<"...">>), JStr(<<"The ", "<tool_call>", " tag">>),
                   JStr(<<"Run ", FENCE, "{", "}", FENCE>>)}
ClaimsOptions == {Undefined, JArr(<<>>), JArr(<<ExampleClaim>>)}
ExtraOptions == {Undefined, JStr(<<"noted">>)}

ReportObjects ==
    { JObj(<<Member("score", s), Member("verdict", v), Member("summary", m),
             Member("claims", c), Member("context", x), Member("sources", x),
             Member("bias", x)>>) :
        s \in ScoreOptions, v \in VerdictOptions, m \in SummaryOptions,
        c \in ClaimsOptions, x \in ExtraOptions }

\* A report the way models wrap it: prose, a fenced block, prose.
Fenced(json) ==
    <<"Here is the report:", "\n", FENCE, "json", "\n">> \o json
    \o <<"\n", FENCE, "\n", "Let me know.">>

RawTexts ==
    { <<>>, <<"No JSON here">>,
      <<"SCORE", ":", " ", "150">>, <<"score", ":", "42">>, <<"Score", ":", " ", "-3">>,
      <<"SCORE", ":", " ", "7.9">>,
      <<"{", QUOTE, "score", QUOTE, ":", " ", "300">>,
      <<"}", " ", "{">>, <<"{", "oops", "}">>, <<"null">>, <<"5">>,
      <<QUOTE, "text", QUOTE>>,
      <<FENCE, "json", "\n", "{", "}">>,
      <<FENCE, "\n", "null", "\n", FENCE>>,
      <<"<tool_call>", "{", QUOTE, "score", QUOTE, ":", "42", "}", "</tool_call>">> }

\* Prose a model may put before and after the fenced block: none, prose with
\* braces of its own, and prose that quotes a command in a fenced snippet.
Proses ==
    { [lead |-> <<>>, trail |-> <<>>],
      [lead |-> <<"Result ", "{", "draft", "}", ":", "\n">>,
       trail |-> <<"\n", "Sources: ", "{", "none", "}">>],
      [lead |-> <<"I ran ", FENCE, "search", FENCE, " first.", "\n">>,
       trail |-> <<"\n", "Done.">>] }
Wrapped(p, json) == p.lead \o <<FENCE, "json", "\n">> \o json \o <<"\n", FENCE>> \o p.trail

\* The texts handed to parseResponse, each with the report it was written from.
ParseInputs ==
    {[text |-> Stringify(r), report |-> r] : r \in ReportObjects}
    \cup {[text |-> Fenced(Stringify(r)), report |-> r] : r \in ReportObjects}
    \cup {[text |-> Wrapped(p, Stringify(r)), report |-> r] : r \in ReportObjects, p \in Proses}
    \cup {[text |-> t, report |-> Undefined] : t \in RawTexts}

InitParse ==
    /\ scenario = "parse"
    /\ storage = Stored(FALSE, NoSettings, NoSettings)
    /\ SessionInit
    /\ \E inp \in ParseInputs : parseInput = inp.text /\ parseReport = inp.report
    /\ parseVariant \in {"llm", "legacy"}
    /\ parseOutput = NoResult
    /\ PanelIdle

\* this.parseResponse(content)
CallParseResponse ==
    /\ scenario = "parse" /\ parseOutput = NoResult
    /\ parseOutput' = IF parseVariant = "llm" THEN ParseResponse(parseInput)
                      ELSE ParseResponseLegacy(parseInput)
    /\ UNCHANGED <<scenario, sessionVars, parseInput, parseReport, parseVariant, panelVars>>

NextParse == CallParseResponse

SpecParse == InitParse /\ [][NextParse]_vars

(***************************************************************************)
(* Specification of the history store                                      *)
(***************************************************************************)
InitHistory ==
    /\ scenario = "history"
    /\ storage = DefaultStorage
    /\ SessionInit
    /\ ParseIdle
    /\ hImpl \in HistoryImpls
    /\ \E n \in {0, HISTORY_MAX - 1, HISTORY_MAX} : history = OldHistory(hImpl, n)
    /\ now = 0
    /\ hLocal = [p \in HistoryCallers |-> NoHistoryCall] /\ hSaves = 0
    /\ CacheIdle
    /\ PanelUnused
    /\ WebUnused

NextHistory ==
    \/ \E p \in HistoryCallers, u \in HistoryUrls : SaveHistoryCall(p, u)
    \/ \E p \in HistoryCallers : SaveHistoryWrite(p)
    \/ \E p \in HistoryCallers : SaveHistoryFails(p)
    \/ Tick

SpecHistory == InitHistory /\ [][NextHistory]_vars

(***************************************************************************)
(* Specification of the page check and its cache                           *)
(***************************************************************************)
InitCache ==
    /\ scenario = "cache"
    /\ storage = DefaultStorage
    /\ SessionInit
    /\ ParseIdle
    /\ HistoryIdle
    /\ PanelUnused
    /\ WebUnused
    /\ cImpl \in CheckImpls
    /\ cache = [k \in CacheKeys |-> NoEntry]
    /\ cPc = "idle" /\ cCheck = NoCheck /\ cRequests = 0 /\ cShown = NoEntry
    /\ cFresh = [c \in Contents |-> NoEntry] /\ cChecks = 0 /\ cAdv = 0
    /\ cApi = NoApi

NextCache ==
    \/ \E c \in Contents, force \in BOOLEAN : CheckStart(c, force)
    \/ CheckCacheLookup
    \/ CheckAnalyzed
    \/ CheckFailed
    \/ ClearCache
    \/ \E d \in {1, CACHE_DURATION - 1} : AdvanceClock(d)

SpecCache == InitCache /\ [][NextCache]_vars

(***************************************************************************)
(* Specification of the cache functions of the storage module              *)
(***************************************************************************)
InitStore ==
    /\ scenario = "store"
    /\ storage = DefaultStorage
    /\ SessionInit
    /\ ParseIdle
    /\ HistoryIdle
    /\ PanelUnused
    /\ WebUnused
    /\ CacheIdle

NextStore ==
    \/ \E p \in CacheCallers, op \in CacheOps, k \in CacheKeys : ApiCalled(p, op, k)
    \/ \E p \in CacheCallers : ApiRead(p)
    \/ \E p \in CacheCallers : ApiWritten(p)
    \/ \E d \in {1, CACHE_DURATION - 1} : ApiClock(d)

SpecStore == InitStore /\ [][NextStore]_vars

(***************************************************************************)
(* Specification of the side panel                                         *)
(***************************************************************************)
InitPanel ==
    /\ scenario \in PanelScenarios
    /\ storage = DefaultStorage
    /\ SessionInit
    /\ ParseIdle
    /\ HistoryIdle
    /\ CacheIdle
    /\ panel = NewPanel({OldItem})
    /\ WebUnused

NextPanel ==
    \/ \E t \in PanelTabs : TabActivated(t)
    \/ \E t \in PanelTabs : TabNavigated(t)
    \/ \E r \in panel.restores : RestoreResumes(r)
    \/ \E d \in {1, SAVE_INTERVAL, SAVE_INTERVAL + 1} : ClockAdvances(d)
    \/ CheckButtonClicked
    \/ \E c \in 1..MaxPanelChecks, blank \in BOOLEAN : ContentExtracted(c, blank)
    \/ \E c \in 1..MaxPanelChecks, script \in ScriptsIn(scenario) : StreamStarts(c, script)
    \/ \E c \in 1..MaxPanelChecks : OnChunk(c)
    \/ \E c \in 1..MaxPanelChecks : StreamRejects(c)
    \/ \E c \in 1..MaxPanelChecks : StreamResolves(c)
    \/ \E c \in 1..MaxPanelChecks : ReportDelayOver(c)
    \/ \E c \in 1..MaxPanelChecks : SummaryDone(c)
    \/ \E c \in 1..MaxPanelChecks : TabInfoRead(c)
    \/ \E c \in 1..MaxPanelChecks : HistorySaved(c)

SpecPanel == InitPanel /\ [][NextPanel]_vars

(***************************************************************************)
(* Specification of search()                                               *)
(***************************************************************************)
InitSearch ==
    /\ scenario = "search"
    /\ storage = DefaultStorage
    /\ SessionInit
    /\ ParseIdle
    /\ HistoryIdle
    /\ CacheIdle
    /\ PanelUnused
    /\ \E q \in QueryValues, m \in MaxResultsValues, o \in FetchOutcomes :
          web = [NoSearchCall EXCEPT !.pc = "called", !.query = q, !.maxResults = m,
                                     !.outcome = o]

NextSearch ==
    \/ SearchCalled
    \/ SearchSettled

SpecSearch == InitSearch /\ [][NextSearch]_vars

(***************************************************************************)
(* Specification of the web_search tool call                               *)
(***************************************************************************)
InitTool ==
    /\ scenario = "tool"
    /\ storage = DefaultStorage
    /\ SessionInit
    /\ ParseIdle
    /\ HistoryIdle
    /\ CacheIdle
    /\ PanelUnused
    /\ \E q \in ToolQueries, b \in PageBehaviours :
         \E f \in SearchReturns(IF Truthy(q) /\ q.t = "str" THEN q.v ELSE <<>>) :
            web = [NoToolCall EXCEPT !.pc = "called", !.query = q, !.behaviour = b,
                      !.found = IF Truthy(q) /\ q.t = "str" THEN f
                                ELSE SearchResult(FALSE, <<>>, "Invalid search query", <<>>)]

NextTool ==
    \/ ToolCalled
    \/ ToolSearched
    \/ FetchRejects
    \/ TimerFires
    \/ HeadersArrive
    \/ BodyArrives
    \/ BodyRejects

SpecTool == InitTool /\ [][NextTool]_vars






(***************************************************************************)
(* History deletion and the tabs that show a restored result               *)
(***************************************************************************)
\* A URL: its host, the segments of its path, its query parameters.
Url(host, path, query) == [host |-> host, path |-> path, query |-> query]
NoUrl == Url("", <<>>, <<>>)
Param(k, v) == [k |-> k, v |-> v]
\* The pages of the open tabs and of the history items.
Urls ==
    { Url("site.example", <<"a">>, <<>>),
      Url("site.example", <<"a">>, <<Param("s", "1")>>),
      Url("site.example", <<"a", "b">>, <<>>),
      Url("www.youtube.com", <<"watch">>, <<Param("v", "1")>>),
      Url("youtu.be", <<"1">>, <<>>) }
\* The URL as the string the tab and the history item hold.
RECURSIVE PathString(_)
PathString(path) ==
    IF path = <<>> THEN <<>> ELSE <<"/", Head(path)>> \o PathString(Tail(path))
RECURSIVE QueryString(_, _)
QueryString(query, first) ==
    IF query = <<>> THEN <<>>
    ELSE <<IF first THEN "?" ELSE "&", Head(query).k, "=", Head(query).v>>
         \o QueryString(Tail(query), FALSE)
UrlString(u) == <<"https://", u.host>> \o PathString(u.path) \o QueryString(u.query, TRUE)
\* String.prototype.includes
Includes(text, part) ==
    \E i \in 1..(Len(text) - Len(part) + 1) : SubSeq(text, i, i + Len(part) - 1) = part
\* urlObj.searchParams.has('v') / get('v')
HasParam(u, k) == \E i \in 1..Len(u.query) : u.query[i].k = k
GetParam(u, k) == u.query[CHOOSE i \in 1..Len(u.query) : u.query[i].k = k].v
\* normalizeUrl(url): a YouTube URL becomes the watch URL of its video, any
\* other URL loses its query.
NormalizeUrl(u) ==
    LET youTube == u.host \in {"www.youtube.com", "youtu.be"}
        videoId == IF HasParam(u, "v") THEN GetParam(u, "v")
                   ELSE IF Len(u.path) >= 2 /\ u.path[1] \in {"embed", "v"} THEN u.path[2]
                   ELSE IF u.host = "youtu.be" /\ u.path # <<>> THEN u.path[1]
                   ELSE ""
    IN IF youTube /\ videoId # ""
       THEN Url("www.youtube.com", <<"watch">>, <<Param("v", videoId)>>)
       ELSE Url(u.host, u.path, <<>>)

\* History items kept in one behaviour.
MaxItems == 2
HistoryItem(id, u) == [id |-> id, url |-> u]
\* getUrlResult(url) on a history list: the first item whose URL normalizes
\* to the same URL, or none.
UrlResultIn(list, u) ==
    IF \E i \in 1..Len(list) : NormalizeUrl(list[i].url) = NormalizeUrl(u)
    THEN list[CHOOSE i \in 1..Len(list) :
                 /\ NormalizeUrl(list[i].url) = NormalizeUrl(u)
                 /\ \A j \in 1..(i - 1) : NormalizeUrl(list[j].url) # NormalizeUrl(u)]
    ELSE HistoryItem(0, NoUrl)
\* The tab state of a result restored from, or saved as, a history item.
ResultState(item) == TabState("result", "", NoSubsteps, item.url, [t |-> "item", id |-> item.id], 0)

\* restoreTabState(tabId) of a tab that is idle, through getUrlResult, as far
\* as the tab state goes.
RestoreFromHistory(d, t) ==
    LET saved == UrlResultIn(d.list, d.tabUrl[t])
    IN IF d.tabStates[t].status \in {"none", "idle"} /\ saved.id # 0
       THEN SaveTabState(d, t, ResultState(saved))
       ELSE d
\* resetTabStateIfActive(tabId) up to its await
ResetTabStateIfActive(d, t) ==
    IF d.tabStates[t].status = "result"
    THEN LET idle == SetTabIdle(d, t)
         IN IF d.currentTabId = t THEN [idle EXCEPT !.restoring = @ \cup {t}] ELSE idle
    ELSE d
\* if (tab.url === deletedUrl || tab.url?.includes(deletedUrl))
DeletionTouches(tabUrl, deletedUrl) ==
    UrlString(tabUrl) = UrlString(deletedUrl) \/ Includes(UrlString(tabUrl), UrlString(deletedUrl))
\* for (const tab of tabs) ...: the tabs one after the other.
RECURSIVE ResetTabs(_, _, _)
ResetTabs(d, tabs, touched) ==
    IF tabs = {} THEN d
    ELSE LET t == CHOOSE x \in tabs : TRUE
         IN ResetTabs(IF touched[t] THEN ResetTabStateIfActive(d, t) ELSE d, tabs \ {t}, touched)
\* handleHistoryDeletion(deletedUrl)
HandleHistoryDeletion(d, deletedUrl) ==
    ResetTabs(d, PanelTabs, [t \in PanelTabs |-> DeletionTouches(d.tabUrl[t], deletedUrl)])
\* handleHistoryClear()
HandleHistoryClear(d) == ResetTabs(d, PanelTabs, [t \in PanelTabs |-> TRUE])

\* list: factCheckHistory; restoring: the tabs with a restoreTabState under
\* way; deleted: the URL handed to onDelete; before: the tab states when the
\* deletion handler started; event: what the latest handler was.
NewDeletion(list, urls, current) ==
    [list |-> list, tabUrl |-> urls, currentTabId |-> current,
     tabStates |-> [t \in PanelTabs |-> NoTabState], restoring |-> {},
     deleted |-> NoUrl, before |-> [t \in PanelTabs |-> NoTabState], event |-> "none",
     events |-> 0]
\* Deletions and clears in one behaviour.
MaxDeletions == 2

\* The panel opens on a tab, or the tab is activated: a saved result of its
\* page is restored.
TabRestored(t) ==
    /\ scenario = "deletion"
    /\ panel.tabStates[t].status = "none"
    /\ PanelStep(RestoreFromHistory([panel EXCEPT !.currentTabId = t, !.event = "restore"], t))
\* The delete button of a history item: storage.deleteHistoryItem(id), then
\* onDelete(item.url) up to the end of handleHistoryDeletion.
HistoryItemDeleted(i) ==
    /\ scenario = "deletion"
    /\ i \in 1..Len(panel.list) /\ panel.events < MaxDeletions
    /\ LET item == panel.list[i]
           d == [panel EXCEPT !.list = SelectSeq(@, LAMBDA h : h.id # item.id),
                              !.deleted = item.url, !.before = panel.tabStates,
                              !.event = "delete", !.events = @ + 1]
       IN PanelStep(HandleHistoryDeletion(d, item.url))
\* The clear button: storage.clearHistory(), then onClear().
HistoryCleared ==
    /\ scenario = "deletion"
    /\ panel.list # <<>> /\ panel.events < MaxDeletions
    /\ PanelStep(HandleHistoryClear([panel EXCEPT !.list = <<>>, !.deleted = NoUrl,
                                                  !.before = panel.tabStates,
                                                  !.event = "clear", !.events = @ + 1]))
\* The restoreTabState that resetTabStateIfActive started comes back from
\* getUrlResult.
ResetRestoreResumes(t) ==
    /\ scenario = "deletion"
    /\ t \in panel.restoring
    /\ PanelStep(RestoreFromHistory([panel EXCEPT !.restoring = @ \ {t}, !.event = "restore"], t))

(***************************************************************************)
(* Specification of history deletion                                       *)
(***************************************************************************)
InitDeletion ==
    /\ scenario = "deletion"
    /\ storage = DefaultStorage
    /\ SessionInit
    /\ ParseIdle
    /\ HistoryIdle
    /\ CacheIdle
    /\ WebUnused
    /\ \E n \in 1..MaxItems, urls \in [PanelTabs -> Urls], current \in PanelTabs :
          \E us \in [1..n -> Urls] :
             panel = NewDeletion([i \in 1..n |-> HistoryItem(i, us[i])], urls, current)

NextDeletion ==
    \/ \E t \in PanelTabs : TabRestored(t)
    \/ \E i \in 1..MaxItems : HistoryItemDeleted(i)
    \/ HistoryCleared
    \/ \E t \in PanelTabs : ResetRestoreResumes(t)

SpecDeletion == InitDeletion /\ [][NextDeletion]_vars

(***************************************************************************)
(* The endpoint of the requests to the model                               *)
(***************************************************************************)
\* A URL string as its pieces: the base, single slashes, 'chat/completions'.
BaseUrl == "https://api.example/v1"
DefaultProviderUrl == <<"https://openrouter.ai/api/v1">>
Completions == "chat/completions"
Suffix == <<"/", Completions>>
\* What the settings may hold as providerUrl: nothing, the base, the base
\* with a trailing slash, with the suffix, with the suffix and a slash.
ProviderUrls ==
    { <<>>, <<BaseUrl>>, <<BaseUrl, "/">>, <<BaseUrl>> \o Suffix, <<BaseUrl>> \o Suffix \o <<"/">> }
\* String.prototype.endsWith
StringEndsWith(str, tail) ==
    Len(str) >= Len(tail) /\ SubSeq(str, Len(str) - Len(tail) + 1, Len(str)) = tail
\* loadConfig: this.providerUrl = settings.providerUrl || 'https://openrouter.ai/api/v1'
LoadedProviderUrl(stored) == IF stored = <<>> THEN DefaultProviderUrl ELSE stored
\* analyzeTextStream, continueWithToolResults (and analyzeText): endpoint
StreamEndpoint(providerUrl) ==
    IF StringEndsWith(providerUrl, Suffix) THEN providerUrl
    ELSE (IF StringEndsWith(providerUrl, <<"/">>)
          THEN SubSeq(providerUrl, 1, Len(providerUrl) - 1) ELSE providerUrl) \o Suffix
\* generateSummary: fetch(`${this.providerUrl}/chat/completions`, ...)
SummaryEndpoint(providerUrl) == providerUrl \o Suffix
EndpointOf(kind, providerUrl) ==
    IF kind = "summary" THEN SummaryEndpoint(providerUrl) ELSE StreamEndpoint(providerUrl)
RequestKinds == {"analysis", "continuation", "summary"}
\* Requests in one behaviour.
MaxFetches == 3

\* A method of the service sends its request.
RequestSent(kind) ==
    /\ scenario = "endpoint"
    /\ Len(requests) < MaxFetches
    /\ requests' = Append(requests, [kind |-> kind, endpoint |-> EndpointOf(kind, this.providerUrl)])
    /\ UNCHANGED <<scenario, storage, saves, this, call, pc, depth, messages, prevMessages,
                   response, stream, linesRead, received, fullContent, firstContent, toolCalls,
                   emittedResponseStart, tcIdx, toolResults, events, result, error,
                   parseVars, panelVars>>

(***************************************************************************)
(* Specification of the endpoint                                           *)
(***************************************************************************)
InitEndpoint ==
    /\ scenario = "endpoint"
    /\ storage = DefaultStorage
    /\ saves = 0
    /\ \E stored \in ProviderUrls : this = [providerUrl |-> LoadedProviderUrl(stored)]
    /\ call = "none" /\ pc = "idle" /\ depth = -1
    /\ messages = <<>> /\ prevMessages = <<>> /\ requests = <<>> /\ response = NoResponse
    /\ stream = <<>> /\ linesRead = 0 /\ received = <<>>
    /\ fullContent = <<>> /\ firstContent = <<>> /\ toolCalls = <<>>
    /\ emittedResponseStart = FALSE
    /\ tcIdx = 1 /\ toolResults = <<>>
    /\ events = <<>> /\ result = NoResult /\ error = NoError
    /\ ParseIdle
    /\ PanelIdle

NextEndpoint == \E kind \in RequestKinds : RequestSent(kind)

SpecEndpoint == InitEndpoint /\ [][NextEndpoint]_vars

(***************************************************************************)
(* Specification of the network reads of a response body                   *)
(***************************************************************************)
MaxReads == 3
\* A quote inside a JSON string literal, as JSON.stringify writes it and
\* JSON.parse reads it.
ESCAPED == "\\\""
EscapeQuotes(toks) == [i \in DOMAIN toks |-> IF toks[i] = QUOTE THEN ESCAPED ELSE toks[i]]
UnescapeQuotes(toks) == [i \in DOMAIN toks |-> IF toks[i] = ESCAPED THEN QUOTE ELSE toks[i]]
IndexToken(i) == CHOOSE t \in DigitTokens : IntPrefix[t] = i /\ t # "7.9"

\* The JSON object the endpoint writes for a line: members that are missing
\* are left out.
StringOrMissing(pieces) == IF pieces = <<>> THEN Undefined ELSE JStr(EscapeQuotes(pieces))
FragmentJson(frag) ==
    JObj(<<Member("index", IF frag.index < 0 THEN Undefined ELSE JNum(IndexToken(frag.index))),
           Member("id", StringOrMissing(IF frag.id = "" THEN <<>> ELSE <<frag.id>>)),
           Member("function",
                  JObj(<<Member("name", StringOrMissing(IF frag.name = "" THEN <<>>
                                                        ELSE <<frag.name>>)),
                         Member("arguments", StringOrMissing(frag.arguments))>>))>>)
DeltaJson(line) ==
    JObj(<<Member("choices", JArr(<<JObj(<<Member("delta",
        JObj(<<Member("content", StringOrMissing(line.content)),
               Member("tool_calls",
                      IF line.tool_calls = <<>> THEN Undefined
                      ELSE JArr([i \in DOMAIN line.tool_calls |->
                                    FragmentJson(line.tool_calls[i])]))>>))>>)>>))>>)
\* The text of a line on the wire: an event of the stream ends with a blank line.
WireLine(line) ==
    <<"data: ">>
    \o (CASE line.kind = "done" -> <<"[DONE]">>
          [] line.kind = "malformed" -> <<"{", "broken">>
          [] OTHER -> Stringify(DeltaJson(line)))
    \o <<"\n", "\n">>
RECURSIVE WireBody(_)
WireBody(lines) == IF lines = <<>> THEN <<>> ELSE WireLine(Head(lines)) \o WireBody(Tail(lines))

\* chunk.split('\n')
RECURSIVE SplitLines(_)
SplitLines(toks) ==
    LET k == IndexOf(toks, "\n") IN
    IF k = 0 THEN <<toks>>
    ELSE <<SubSeq(toks, 1, k - 1)>> \o SplitLines(SubSeq(toks, k + 1, Len(toks)))

\* A string member of the parsed object; a member that is missing or empty
\* fails the truthiness test of the code.
StringIn(val) == IF Truthy(val) /\ val.t = "str" THEN UnescapeQuotes(val.v) ELSE <<>>
\* parsed.choices?.[0]?.delta
DeltaOf(parsed) ==
    LET choices == Get(parsed, "choices") IN
    IF choices.t = "arr" /\ choices.v # <<>> THEN Get(choices.v[1], "delta") ELSE Undefined
\* What the handling of the delta reads off one element of delta.tool_calls.
FragmentOf(tc) ==
    LET fun == Get(tc, "function") IN
    Fragment(IF Get(tc, "index").t = "num" THEN IntPrefix[Get(tc, "index").tok] ELSE 0 - 1,
             Text(StringIn(Get(tc, "id"))),
             Text(StringIn(Get(fun, "name"))),
             StringIn(Get(fun, "arguments")))
\* The delta of a parsed payload as the line the loop body works on.
LineOf(parsed) ==
    LET delta == DeltaOf(parsed)
        tcs == Get(delta, "tool_calls")
    IN DeltaLine(StringIn(Get(delta, "content")),
                 IF tcs.t = "arr" THEN [i \in DOMAIN tcs.v |-> FragmentOf(tcs.v[i])] ELSE <<>>)

\* The body of for (const line of lines) on a line of text.
ProcessText(fn, acc, text) ==
    IF text # <<>> /\ Head(text) = "data: "
    THEN LET data == Tail(text) IN
         IF data = <<"[DONE]">> THEN acc
         ELSE LET parsed == JsonParse(data) IN
              IF parsed.ok THEN ProcessLine(fn, acc, LineOf(parsed.val))
              ELSE OnParseError(acc)
    ELSE acc
RECURSIVE ProcessTexts(_, _, _)
ProcessTexts(fn, acc, texts) ==
    IF texts = <<>> THEN acc
    ELSE ProcessTexts(fn, ProcessText(fn, acc, Head(texts)), Tail(texts))
\* One reader.read(): decoder.decode(value), chunk.split('\n') and the loop.
ProcessChunk(fn, acc, chunk) == ProcessTexts(fn, acc, SplitLines(chunk))

\* The bodies the endpoint writes.
ReadStreams ==
    { <<DeltaLine(<<"Checking">>, <<>>), DeltaLine(<<" facts">>, <<>>)>>,
      <<CallLine(0, "call_a", "web_search", ArgsHead),
        DeltaLine(<<>>, <<Fragment(0, "", "", ArgsTail)>>)>>,
      <<MalformedLine, DeltaLine(<<"Checked">>, <<>>), DoneLine>> }

\* reader.read() resolves with the next n tokens of the body; the last read
\* the bound allows takes what is left.
NetworkRead(n) ==
    /\ scenario = "reads" /\ pc = "stream" /\ stream # <<>>
    /\ n <= Len(stream)
    /\ linesRead + 1 = MaxReads => n = Len(stream)
    /\ LET chunk == SubSeq(stream, 1, n)
           acc == ProcessChunk(call, [fullContent |-> fullContent, toolCalls |-> toolCalls,
                                      emittedResponseStart |-> emittedResponseStart,
                                      events |-> events], chunk)
       IN /\ fullContent' = acc.fullContent
          /\ toolCalls' = acc.toolCalls
          /\ emittedResponseStart' = acc.emittedResponseStart
          /\ events' = acc.events
          /\ received' = Append(received, chunk)
          /\ stream' = SubSeq(stream, n + 1, Len(stream))
    /\ linesRead' = linesRead + 1
    /\ UNCHANGED <<scenario, cfgVars, call, pc, depth, reqVars, firstContent, loopVars,
                   result, error, parseVars, panelVars>>

\* reader.read() reports done.
EndOfBody ==
    /\ scenario = "reads" /\ pc = "stream" /\ stream = <<>>
    /\ pc' = "done"
    /\ UNCHANGED <<scenario, cfgVars, call, depth, reqVars, roundVars, firstContent, loopVars,
                   events, result, error, parseVars, panelVars>>

\* response holds the lines the endpoint wrote, stream their text.
InitReads ==
    /\ scenario = "reads"
    /\ storage = DefaultStorage
    /\ saves = 0
    /\ this = ConstructedService
    /\ call \in {"analyzeTextStream", "continueWithToolResults"}
    /\ pc = "stream"
    /\ depth = IF call = "analyzeTextStream" THEN 0 - 1 ELSE 0
    /\ messages = <<>> /\ prevMessages = <<>> /\ requests = 0
    /\ \E lines \in ReadStreams :
          /\ response = [status |-> 200, message |-> "OK", lines |-> lines]
          /\ stream = WireBody(lines)
    /\ linesRead = 0 /\ received = <<>>
    /\ fullContent = <<>> /\ firstContent = <<>> /\ toolCalls = <<>>
    /\ emittedResponseStart = FALSE
    /\ tcIdx = 1 /\ toolResults = <<>>
    /\ events = <<>> /\ result = NoResult /\ error = NoError
    /\ ParseIdle
    /\ PanelIdle

NextReads ==
    \/ \E n \in 1..Len(stream) : NetworkRead(n)
    \/ EndOfBody

SpecReads == InitReads /\ [][NextReads]_vars

(***************************************************************************)
(* Properties: the depth cap                                               *)
(***************************************************************************)
Finished == pc \in {"done", "failed"}

\* The lines the response being read still has to deliver (streams are finite).
LinesLeft == IF IsFreeRound THEN MaxLines - linesRead ELSE Len(stream)
\* Where the call stands, as a triple of naturals that every step of the call
\* makes smaller in the lexicographic order: rounds left before the cap, the
\* phase of the round, and what is left of the phase.
Progress ==
    IF Finished THEN <<0, 0, 0>>
    ELSE <<MAX_TOOL_DEPTH - depth,
           CASE pc = "idle" -> 5 [] pc = "loadConfig" -> 4 [] pc = "fetch" -> 3
             [] pc = "stream" -> 2 [] OTHER -> 1,
           CASE pc = "stream" -> LinesLeft
             [] pc = "tools" -> 2 * (Len(toolCalls) + 1 - tcIdx) + 1
             [] pc = "exec" -> 2 * (Len(toolCalls) + 1 - tcIdx)
             [] OTHER -> 0>>
LexLess(a, b) ==
    \/ a[1] < b[1]
    \/ a[1] = b[1] /\ a[2] < b[2]
    \/ a[1] = b[1] /\ a[2] = b[2] /\ a[3] < b[3]
\* The steps of the call (the others are the user's and other calls').
CallStep == <<pc, depth, linesRead, tcIdx>>' # <<pc, depth, linesRead, tcIdx>>

\* C1: every call ends, whatever the endpoint answers (each step of the call
\* lowers Progress, a triple of naturals, so the call takes finitely many
\* steps); a request is sent only at a depth below MAX_TOOL_DEPTH, so no more
\* than MAX_TOOL_DEPTH continuation requests follow the first request; and the
\* call that reaches depth MAX_TOOL_DEPTH returns the UNVERIFIABLE report
\* (score 50, no claims) without a further request.
C1_DepthCap ==
    [][/\ CallStep => LexLess(Progress', Progress)
       /\ \A k \in 1..3 : Progress'[k] \in Nat
       /\ requests' > requests => requests' = requests + 1 /\ depth' < MAX_TOOL_DEPTH
       /\ requests' <= 1 + MAX_TOOL_DEPTH /\ depth' <= MAX_TOOL_DEPTH
       /\ depth' = MAX_TOOL_DEPTH =>
             /\ pc' = "done" /\ result' = MaxDepthReport
             /\ result'.score = 50 /\ result'.verdict = JStr(<<"UNVERIFIABLE">>)
             /\ result'.claims = JArr(<<>>)
             /\ depth # MAX_TOOL_DEPTH => requests' = requests]_vars

\* A model that asked for a search in every round was stopped at the cap.
C1_Witness ==
    /\ depth = MAX_TOOL_DEPTH /\ requests = 1 + MAX_TOOL_DEPTH
    /\ pc = "done" /\ result = MaxDepthReport

(***************************************************************************)
(* Properties: merging the streamed tool-call fragments                    *)
(***************************************************************************)
\* The tool-call fragments of the lines read, in arrival order.
RECURSIVE LineFragments(_)
LineFragments(lines) ==
    IF lines = <<>> THEN <<>>
    ELSE (IF Head(lines).kind = "delta" THEN Head(lines).tool_calls ELSE <<>>)
         \o LineFragments(Tail(lines))
\* The arguments fragments that carry index i, concatenated in arrival order.
RECURSIVE ConcatArguments(_, _)
ConcatArguments(frags, i) ==
    IF frags = <<>> THEN <<>>
    ELSE (IF Head(frags).index = i THEN Head(frags).arguments ELSE <<>>)
         \o ConcatArguments(Tail(frags), i)
\* The non-empty arguments fragments that carry index i.
ArgumentFragments(frags, i) ==
    LET sel == SelectSeq(frags, LAMBDA f : f.index = i /\ f.arguments # <<>>)
    IN [k \in 1..Len(sel) |-> sel[k].arguments]
\* The names sent for index i.
NamesSent(frags, i) ==
    {frags[k].name : k \in {j \in 1..Len(frags) : frags[j].index = i /\ frags[j].name # ""}}

\* C2: in the first stream and in every continuation stream, the merged call at
\* index i holds the concatenation, in arrival order, of the arguments fragments
\* that carry index i, whatever is interleaved; the two fragments that spell
\* {"query":"x"} in halves merge into exactly that text.
C2_ArgumentsConcatenated ==
    LET frags == LineFragments(received) IN
    /\ \A k \in 1..Len(frags) : frags[k].index >= 0 => Len(toolCalls) > frags[k].index
    /\ \A i \in 1..Len(toolCalls) :
          /\ IsHole(toolCalls[i]) => ConcatArguments(frags, i - 1) = <<>>
          /\ ~IsHole(toolCalls[i]) =>
                toolCalls[i].function.arguments = ConcatArguments(frags, i - 1)
    /\ ArgumentFragments(frags, 0) = <<ArgsHead, ArgsTail>> =>
          Text(toolCalls[1].function.arguments) = "{\"query\":\"x\"}"

\* A continuation stream delivered the two halves with a fragment of index 1
\* between them.
C2_Witness ==
    /\ Fn = "continueWithToolResults" /\ pc = "stream" /\ Len(received) = 3
    /\ received[1] = DeltaLine(<<>>, <<Fragment(0, "", "", ArgsHead)>>)
    /\ received[2] = DeltaLine(<<>>, <<Fragment(1, "call_b", "web_search", QueryArgs("y"))>>)
    /\ received[3] = DeltaLine(<<>>, <<Fragment(0, "", "", ArgsTail)>>)
    /\ Text(toolCalls[1].function.arguments) = "{\"query\":\"x\"}"

\* C3: in both read loops, when every name fragment of index i carries the same
\* function name (sent once, or the full name repeated), the merged call has
\* that name, so a web_search call is recognised.
C3_NameOverwritten ==
    LET frags == LineFragments(received) IN
    \A i \in 1..Len(toolCalls) :
        \A n \in NamesSent(frags, i - 1) :
            NamesSent(frags, i - 1) = {n} => toolCalls[i].function.name = n

\* The first stream repeated the name web_search for index 0: the merged name
\* is not web_search, no tool ran and no continuation was sent.
C3_Diverges ==
    /\ depth = -1 /\ pc = "done" /\ requests = 1
    /\ NamesSent(LineFragments(received), 0) = {"web_search"}
    /\ toolCalls[1].function.name = "web_searchweb_search"
    /\ \A k \in 1..Len(events) : events[k].type # "search_start"

(***************************************************************************)
(* Properties: the message history                                         *)
(***************************************************************************)
\* The tool messages that stand at positions p, p + 1, ... without a gap.
RECURSIVE ToolRun(_, _)
ToolRun(msgs, p) ==
    IF p <= Len(msgs) /\ msgs[p].role = "tool"
    THEN <<msgs[p]>> \o ToolRun(msgs, p + 1) ELSE <<>>
\* The ids of the web_search calls of an assistant message, in their order.
SearchCallIds(tcs) ==
    LET calls == SelectSeq(tcs, LAMBDA tc : ~IsHole(tc) /\ tc.function.name = "web_search")
    IN [k \in 1..Len(calls) |-> calls[k].id]
IsLastAssistant(msgs, p) ==
    msgs[p].role = "assistant" /\ \A q \in (p + 1)..Len(msgs) : msgs[q].role # "assistant"

\* C4: in the messages of every continuation request each assistant message
\* that carries tool_calls is followed at once by the tool messages of its
\* round, one per executed call and in the order of the calls; no tool message
\* stands anywhere else.
C4_ToolMessagesFollowAssistant ==
    \A p \in 1..Len(messages) :
        /\ messages[p].role = "assistant" =>
              LET run == ToolRun(messages, p + 1) IN
              /\ Len(run) >= 1
              /\ [k \in 1..Len(run) |-> run[k].tool_call_id]
                    = SearchCallIds(messages[p].tool_calls)
              /\ IsLastAssistant(messages, p) /\ pc = "fetch" =>
                    messages[p].tool_calls = toolCalls /\ run = toolResults
        /\ messages[p].role = "tool" =>
              p > 1 /\ messages[p - 1].role \in {"assistant", "tool"}

\* A second continuation request: two assistant messages, the later one with
\* two calls and their two tool messages in the order of the calls.
C4_Witness ==
    /\ pc = "fetch" /\ depth = 1 /\ Len(toolResults) = 2
    /\ toolResults[1].tool_call_id = "call_a" /\ toolResults[2].tool_call_id = "call_b"
    /\ Len(messages) >= 7
    /\ messages[Len(messages) - 2].role = "assistant"
    /\ SubSeq(messages, Len(messages) - 1, Len(messages)) = toolResults

\* One assistant message and then tool messages only.
IsRound(msgs) ==
    /\ msgs # <<>> /\ msgs[1].role = "assistant"
    /\ Len(msgs) >= 2 /\ \A k \in 2..Len(msgs) : msgs[k].role = "tool"

\* C5: within one exchange the messages of a request are those of the request
\* before it plus one assistant message and its tool messages; nothing sent
\* earlier is removed, moved or changed, and the list opens with the system
\* message and the user message.
C5_AppendOnly ==
    call = "analyzeTextStream" /\ messages # <<>> =>
        /\ Len(messages) >= 2
        /\ messages[1].role = "system" /\ messages[2].role = "user"
        /\ prevMessages # <<>> =>
              /\ Len(messages) > Len(prevMessages)
              /\ SubSeq(messages, 1, Len(prevMessages)) = prevMessages
              /\ IsRound(SubSeq(messages, Len(prevMessages) + 1, Len(messages)))

\* The first continuation request carries another user message than the
\* first request did: the settings were saved and loaded by another call on
\* the same service object in between.
C5_Diverges ==
    /\ call = "analyzeTextStream" /\ pc = "fetch" /\ depth = 0
    /\ Len(prevMessages) = 2 /\ Len(messages) > 2
    /\ messages[2] # prevMessages[2]

(***************************************************************************)
(* Properties: errors                                                      *)
(***************************************************************************)
\* The tool call the loop stands at is a web_search call whose arguments do not
\* parse, or parse to null so that reading the query fails.
AtFailingCall ==
    /\ pc = "tools" /\ tcIdx <= Len(toolCalls)
    /\ ~IsHole(toolCalls[tcIdx]) /\ toolCalls[tcIdx].function.name = "web_search"
    /\ LET args == JsonParse(toolCalls[tcIdx].function.arguments)
       IN ~args.ok \/ args.val.t = "null"
\* A tool message whose content is the JSON text of an object with an error string.
IsErrorMessage(m) ==
    /\ m.role = "tool" /\ m.content.t = "str"
    /\ LET o == JsonParse(m.content.v)
       IN o.ok /\ o.val.t = "obj" /\ Get(o.val, "error").t = "str"
\* The loop over the tool calls is over and one of its calls had failed.
RoundWithFailureEnds ==
    /\ pc = "tools" /\ tcIdx > Len(toolCalls) /\ pc' # pc
    /\ \E k \in 1..Len(toolResults) : IsErrorMessage(toolResults[k])
\* The step that handles a failing call appends its error message and moves on.
FailureIsReported ==
    AtFailingCall /\ tcIdx' # tcIdx =>
        /\ Len(toolResults') = Len(toolResults) + 1
        /\ SubSeq(toolResults', 1, Len(toolResults)) = toolResults
        /\ IsErrorMessage(toolResults'[Len(toolResults')])
        /\ toolResults'[Len(toolResults')].tool_call_id = toolCalls[tcIdx].id
        /\ pc' = "tools" /\ tcIdx' = tcIdx + 1
        /\ error' = NoError /\ result' = NoResult
\* The continuation request goes out with the round's tool messages at its end.
ContinuationSent ==
    /\ pc' = "fetch" /\ requests' = requests + 1 /\ error' = NoError
    /\ SubSeq(messages', Len(messages') - Len(toolResults) + 1, Len(messages')) = toolResults

StreamingHttpFailure == call = "analyzeTextStream" /\ response.status \notin {0, 200}

NoApiKeyStored(st) == st.nested.apiKey = "" /\ st.flat.apiKey = ""

\* C8: with no API key stored, analyzeText, analyzeTextStream and
\* generateSummary throw the API Key is missing error out of loadConfig, with
\* no request sent and no event delivered, before or after.
C8_NoKeyFailsFirst ==
    [][/\ pc = "loadConfig" /\ pc' # pc /\ NoApiKeyStored(storage) =>
             /\ pc' = "failed" /\ error' = ConfigError /\ result' = NoResult
             /\ requests' = 0 /\ events' = <<>>
       /\ error' = ConfigError =>
             /\ call' \in Methods /\ pc' = "failed"
             /\ requests' = 0 /\ events' = <<>> /\ messages' = <<>>]_vars

\* generateSummary failed on the missing key.
C8_Witness ==
    /\ call = "generateSummary" /\ NoApiKeyStored(storage)
    /\ pc = "failed" /\ error = ConfigError /\ requests = 0 /\ events = <<>>

(***************************************************************************)
(* Properties: parseResponse (specification SpecParse)                     *)
(***************************************************************************)
Parsed == parseOutput # NoResult

\* C9: whatever the text, parseResponse returns a report (it does not throw)
\* whose score is an integer from 0 to 100, through JSON.parse and through the
\* catch block alike, in llm.js and in llm_service.js.
C9_ScoreInRange ==
    Parsed => /\ DOMAIN parseOutput = DOMAIN ParseFallback(<<>>)
              /\ parseOutput.score \in 0..100

\* The text SCORE: 150 holds no JSON object: the catch block returns 150.
C9_Diverges ==
    /\ Parsed /\ parseVariant = "llm"
    /\ Text(parseInput) = "SCORE: 150"
    /\ parseOutput.score = 150 /\ parseOutput.verdict = JStr(<<"UNKNOWN">>)

\* The tokens of JSON numbers that are integers.
IntegerTokens == NumberTokens \ {"7.9"}
\* A report object with the field types of an AnalysisReport; any field may
\* be missing.
IsReportObject(r) ==
    /\ r.t = "obj"
    /\ Get(r, "score").t = "undefined"
          \/ (Get(r, "score").t = "num" /\ Get(r, "score").tok \in IntegerTokens)
    /\ Get(r, "claims").t \in {"undefined", "arr"}
    /\ \A f \in {"verdict", "summary", "context", "sources", "bias"} :
          Get(r, f).t \in {"undefined", "str"}
\* The text given to parseResponse is the JSON text of a report object, bare.
BareReportParsed ==
    Parsed /\ IsReportObject(parseReport) /\ parseInput = Stringify(parseReport)
\* The integer score, clamped; 0 for a report without a score.
ExpectedScore(r) ==
    IF Get(r, "score").t = "undefined" THEN 0
    ELSE Min(100, Max(0, IntPrefix[Get(r, "score").tok]))
\* A field as the report has it, or its default when the report has none.
FieldOr(r, f, dflt) == IF Get(r, f).t = "undefined" THEN dflt ELSE Get(r, f)
\* The report of the example: score 5 and one claim of verdict FALSE.
ExampleParsed ==
    Parsed /\ parseInput = Stringify(ExampleReport) =>
        /\ parseOutput.score = 5
        /\ parseOutput.claims.t = "arr" /\ Len(parseOutput.claims.v) = 1
        /\ Get(parseOutput.claims.v[1], "verdict") = JStr(<<"FALSE">>)
\* Score, verdict, summary and claims as in the report r, the missing ones defaulted.
FieldsAsReported(r) ==
    /\ parseOutput.score = ExpectedScore(r)
    /\ parseOutput.summary = FieldOr(r, "summary", JStr(<<>>))
    /\ parseOutput.claims = FieldOr(r, "claims", JArr(<<>>))
    /\ parseOutput.context = FieldOr(r, "context", JStr(<<>>))
    /\ parseOutput.sources = FieldOr(r, "sources", JStr(<<>>))
    /\ parseOutput.bias = FieldOr(r, "bias", JStr(<<>>))
    /\ parseOutput.raw = parseInput

PlainText(toks) == \A k \in 1..Len(toks) : toks[k] # FENCE /\ toks[k] \notin TagTokens

ParseWith(variant, content) ==
    IF variant = "llm" THEN ParseResponse(content) ELSE ParseResponseLegacy(content)
\* The text is the JSON text of a report object inside a fenced block, with
\* prose before and after it.
FencedReportParsed ==
    /\ Parsed /\ IsReportObject(parseReport)
    /\ \/ parseInput = Fenced(Stringify(parseReport))
       \/ \E p \in Proses : parseInput = Wrapped(p, Stringify(parseReport))
\* The seven fields of the report a agree with those of b.
SameFields(a, b) ==
    \A f \in {"score", "verdict", "summary", "claims", "context", "sources", "bias"} :
        a[f] = b[f]
\* The fences of a text.
FenceCount(toks) == Cardinality({k \in 1..Len(toks) : toks[k] = FENCE})

\* C11 as stated: a well-formed JSON report inside a fenced block, whatever
\* the prose around it, is parsed to the same score, verdict, summary, claims,
\* context, sources and bias as the bare JSON text of the report.
C11_FencedSameAsBare ==
    FencedReportParsed =>
        SameFields(parseOutput, ParseWith(parseVariant, Stringify(parseReport)))

\* C11 amended: the same when the fences of the block are the only code
\* fences of the text, that is when neither the report nor the prose holds a
\* fence of its own (the regular expression takes the leftmost pair of fences).
C11_SingleFenceSameAsBare ==
    FencedReportParsed /\ FenceCount(parseInput) = 2 =>
        SameFields(parseOutput, ParseWith(parseVariant, Stringify(parseReport)))

\* llm.js parsed the example report from a fenced block between prose that
\* has braces of its own.
C11_Witness ==
    /\ FencedReportParsed /\ FenceCount(parseInput) = 2 /\ parseVariant = "llm"
    /\ Stringify(parseReport) = Stringify(ExampleReport)
    /\ IndexOf(parseInput, "{") < IndexOf(parseInput, FENCE)
    /\ parseOutput.score = 5 /\ parseOutput.verdict = JStr(<<"FALSE">>)

(***************************************************************************)
(* Properties: the raw field (specification Spec)                          *)
(***************************************************************************)
\* analyzeTextStream returned a report.
StreamReturned == call = "analyzeTextStream" /\ pc = "done"
\* The model text of the round a returned report was produced from: the
\* catch (contError) block of analyzeTextStream builds its report from the
\* round analyzeTextStream read; every other report is returned at the end of
\* the round that was read last.
RoundText ==
    IF result.verdict = JStr(<<"ANALYSIS_ERROR">>) THEN firstContent ELSE fullContent

\* C12: every report analyzeTextStream returns, parsed, recovered by the
\* fallback or degraded, has raw equal to the unparsed model text of the round
\* it was produced from.
C12_RawIsModelText == StreamReturned => result.raw = RoundText

\* The response to the request at depth 99 carried text and one more
\* web_search call: the report returned at the depth bound has raw ''.
C12_Diverges ==
    /\ StreamReturned /\ depth = MAX_TOOL_DEPTH
    /\ result = MaxDepthReport /\ result.raw = <<>>
    /\ fullContent = <<"Let me search.">>

(***************************************************************************)
(* Properties: the history store (specification SpecHistory)               *)
(***************************************************************************)
\* The list is ordered newest first.
NewestFirst(list) ==
    \A i, j \in 1..Len(list) : i < j => list[i].id >= list[j].id
\* The stored history is bounded and ordered.
HistoryBounded == Len(history) <= HISTORY_MAX /\ NewestFirst(history)
\* The caller p stores its item on top of a list of HISTORY_MAX items.
Stores51st(p) == SaveHistoryWrite(p) /\ Len(hLocal[p].list) = HISTORY_MAX

\* C13: starting from at most 50 stored items, after any saveHistory calls
\* (overlapping ones included) the stored history has at most 50 items and is
\* ordered newest first; a call that puts a 51st item on a list of 50 stores
\* exactly 50 items: the new one followed by the first 49, so that exactly the
\* oldest one is gone.
C13_HistoryBounded ==
    [][/\ HistoryBounded'
       /\ \A p \in HistoryCallers :
             Stores51st(p) =>
                /\ Len(history') = HISTORY_MAX
                /\ history'[1].id = now /\ history'[1].url = hLocal[p].item.url
                /\ SubSeq(history', 2, HISTORY_MAX)
                      = SubSeq(hLocal[p].list, 1, HISTORY_MAX - 1)
                /\ \A k \in 1..HISTORY_MAX :
                      history'[k] # hLocal[p].list[HISTORY_MAX]]_vars

\* A third save in a row, made on 50 stored items a millisecond after the
\* second one: 50 items are stored, the two newest on top.
C13_Witness ==
    /\ scenario = "history" /\ hSaves = 3 /\ \A p \in HistoryCallers : hLocal[p].pc = "idle"
    /\ Len(history) = HISTORY_MAX
    /\ history[1].id = 1 /\ history[2].id = 0 /\ history[3].id = 0
    /\ history[HISTORY_MAX].id = 0 - (HISTORY_MAX - 3)

(***************************************************************************)
(* Properties: the cache (specification SpecCache)                         *)
(***************************************************************************)
\* The running check is the second one of its text within the life of a
\* cache entry: the model computed a report for the text less than
\* CACHE_DURATION before the check started, and the cache was not cleared since.
SecondWithinTTL ==
    /\ ~cCheck.force /\ cCheck.prev # NoEntry
    /\ cCheck.at - cCheck.prev.at < CACHE_DURATION

\* C14: the second check of a text within the 24 hours returns the report
\* of the first check and makes no request to the model; a check with
\* forceRefresh goes to the model and returns the report computed then.
C14_SecondCheckFromCache ==
    cPc = "done" =>
        /\ SecondWithinTTL =>
              /\ cShown # NoEntry /\ cShown.report = cCheck.prev.report
              /\ cRequests = cCheck.requests
        /\ cCheck.force =>
              /\ cRequests = cCheck.requests + 1
              /\ cShown # NoEntry =>
                    ~cShown.cached /\ cShown.report = FreshReport(cRequests, cCheck.content)

\* check.js neither reads nor writes the cache: the second check of a text,
\* a millisecond after the first, asks the model again and shows another report.
C14_Diverges ==
    /\ cImpl = "check.js" /\ cPc = "done" /\ SecondWithinTTL
    /\ now = 1 /\ cRequests = 2 /\ cCheck.requests = 1
    /\ cShown # NoEntry /\ cShown.report # cCheck.prev.report
    /\ cache = [k \in CacheKeys |-> NoEntry]


(***************************************************************************)
(* The side panel under tab switches, navigation and running checks        *)
(***************************************************************************)
\* The panel shows the progress view of tab t as its tab state holds it.
ShowsProgressOf(p, t) ==
    /\ p.view.kind = "progress" /\ p.view.tab = t
    /\ p.view.step = p.tabStates[t].step
    /\ p.view.sub = p.tabStates[t].sub

\* C15: when the user switches to a tab whose check is in progress, the panel
\* then shows that tab's progress view, rebuilt from the step and substeps
\* of its tab state; it shows neither the other tab's view nor the idle view.
C15_SwitchBackShowsProgress ==
    [][\A t \in PanelTabs :
          TabActivated(t) /\ panel.tabStates[t].status = "progress"
              => ShowsProgressOf(panel', t)]_vars
\* The user went from A to B and back while the check on A streams, and the
\* panel shows the idle view that the switch to B drew.
C15_Diverges ==
    /\ panel.checks[1].tab = "A" /\ panel.checks[1].pc = "stream"
    /\ panel.switches = 2 /\ panel.currentTabId = "A"
    /\ panel.tabStates["A"].status = "progress"
    /\ panel.view.kind = "idle" /\ panel.view.tab = "B"


\* The tab state of t holds progress or result data written by a check.
HoldsCheckData(p, t) ==
    /\ p.tabStates[t].status \in {"progress", "result"}
    /\ p.tabStates[t].check \in 1..MaxPanelChecks
\* The tab state of t was restored from a history item of the page it shows.
RestoredFromHistory(p, t) ==
    /\ p.tabStates[t].status = "result"
    /\ \E h \in p.urlHistory :
          h.url = Page(t, p.tabUrl[t]) /\ h.check = p.tabStates[t].check
\* The data in the tab state of t come from a check started on the page the
\* tab shows now, or from the history of that page.
FreeOfOldData(p, t) ==
    HoldsCheckData(p, t) =>
        \/ p.checks[p.tabStates[t].check].startedOn = Page(t, p.tabUrl[t])
        \/ RestoredFromHistory(p, t)

\* C16: a navigation leaves the tab state of the tab idle, and from then on
\* the tab state holds no progress or result data of a check started before
\* the navigation, unless a history item of the new page was restored.
C16_NavigationClears ==
    [][/\ \A t \in PanelTabs : TabNavigated(t) => panel'.tabStates[t] = IdleTabState
       /\ \A t \in PanelTabs : FreeOfOldData(panel', t)]_vars
\* Tab A went to a new page while its check ran, and the check has put its
\* result for the old page into the tab state.
C16_Diverges ==
    /\ panel.tabUrl["A"] = 1
    /\ panel.checks[1].startedOn = Page("A", 0) /\ panel.checks[1].pc = "saveHistory"
    /\ panel.tabStates["A"].status = "result" /\ panel.tabStates["A"].check = 1
    /\ panel.tabStates["A"].content = Page("A", 0)
    /\ ~RestoredFromHistory(panel, "A")


\* Check c takes a step while another tab than its own has the focus.
BackgroundStep(c) == CheckContinues(c) /\ panel.currentTabId # panel.checks[c].tab

\* C17: a step of a check whose tab does not have the focus changes nothing
\* the panel shows or holds: not the view, not the progress timer, not the
\* current content and not the current prompt.
C17_BackgroundCheckIsSilent ==
    [][\A c \in 1..MaxPanelChecks :
          BackgroundStep(c) =>
              /\ panel'.view = panel.view
              /\ panel'.timer = panel.timer
              /\ panel'.currentContent = panel.currentContent
              /\ panel'.currentPrompt = panel.currentPrompt]_vars
\* The check on A has taken the page of B, which has the focus, as the
\* panel's current content and prompt.
C17_Diverges ==
    /\ panel.checks[1].tab = "A" /\ panel.checks[1].pc = "delay200"
    /\ panel.currentTabId = "B" /\ panel.tabStates["B"].status = "none"
    /\ panel.currentContent = Page("B", 0) /\ panel.currentPrompt = Page("B", 0)


\* Check c takes a step after a newer check was started on its tab.
SupersededStep(c) ==
    /\ CheckContinues(c)
    /\ \E d \in StartedChecks : d > c /\ panel.checks[d].tab = panel.checks[c].tab

\* C18: once a newer check was started on the tab of a running check, the
\* older check changes neither the tab state of the tab nor the view.
C18_NewestCheckOwnsTab ==
    [][\A c \in 1..MaxPanelChecks :
          SupersededStep(c) =>
              /\ panel'.tabStates[panel.checks[c].tab] = panel.tabStates[panel.checks[c].tab]
              /\ panel'.view = panel.view]_vars
\* The second check on A is still extracting, and the tab state and the view
\* hold the result of the first.
C18_Diverges ==
    /\ panel.checks[1].tab = "A" /\ panel.checks[2].tab = "A"
    /\ panel.checks[2].pc = "extract"
    /\ panel.tabStates["A"].status = "result" /\ panel.tabStates["A"].check = 1
    /\ panel.view.kind = "result" /\ panel.view.check = 1


\* The queries of the search_start events and the results of the
\* search_complete events among the events delivered.
RECURSIVE IssuedQueries(_)
IssuedQueries(es) ==
    IF es = <<>> THEN <<>>
    ELSE (IF Head(es).type = "search_start" THEN <<Head(es).query>> ELSE <<>>)
         \o IssuedQueries(Tail(es))
RECURSIVE ReportedResults(_)
ReportedResults(es) ==
    IF es = <<>> THEN <<>>
    ELSE (IF Head(es).type = "search_complete" THEN Head(es).results ELSE <<>>)
         \o ReportedResults(Tail(es))
QueryTexts(qs) == [i \in 1..Len(qs) |-> qs[i].query]
\* The check has its final report (it is past generateSummary).
ReportComplete(c) == panel.checks[c].pc \in {"tabInfo", "saveHistory"}

\* C19: the report of a completed check lists in searchQueries every query
\* the exchange issued and in searchSources every result the exchange
\* reported, whatever tab had the focus while the events arrived.
C19_ReportListsAllSearches ==
    \A c \in 1..MaxPanelChecks :
        ReportComplete(c) =>
            /\ QueryTexts(panel.checks[c].result.searchQueries) = IssuedQueries(panel.checks[c].seen)
            /\ panel.checks[c].result.searchSources = ReportedResults(panel.checks[c].seen)
\* Both searches were made, the second while another tab had the focus, and
\* the report lists the first only.
C19_Diverges ==
    /\ ReportComplete(1) /\ Len(panel.checks[1].seen) = 5
    /\ QueryTexts(panel.checks[1].result.searchQueries) = <<"x">>
    /\ panel.checks[1].result.searchSources = <<ResultOf("x")>>


(***************************************************************************)
(* search() and the outcomes of its request                                *)
(***************************************************************************)
\* The query is missing, empty or not a string.
BadQuery(q) == q \in {Undefined, JNull, JStr(<<>>)} \/ q.t # "str"
\* The request fails: no response, or a response that is not 2xx.
FailedRequest(o) == o.kind \in {"network", "abort", "http", "body"}
IsSearchObject(v) ==
    /\ DOMAIN v = {"success", "query", "error", "results"}
    /\ v.success \in BOOLEAN
    /\ v.results \in Seq([url : {"u"}, title : {"t"}])
    /\ v.success => v.error = ""

\* C20: whatever the query and whatever the request does, search() returns
\* an object with success, query and results and does not throw; for a bad
\* query or a failed request success is false and results is empty.
C20_SearchNeverThrows ==
    web.pc = "done" =>
        /\ web.out.kind = "return"
        /\ IsSearchObject(web.out.value)
        /\ BadQuery(web.query) \/ FailedRequest(web.outcome) =>
              ~web.out.value.success /\ web.out.value.results = <<>>
\* A well-formed query whose request came back with status 500: search()
\* has returned the failure object.
C20_Witness ==
    /\ web.pc = "done" /\ web.query = JStr(<<" ", "q", " ">>)
    /\ web.outcome.kind = "http" /\ web.outcome.status = 500
    /\ web.out = Returned(SearchResult(FALSE, <<"q">>, "HTTP error", <<>>))

\* The check that last wrote the tab state of t has ended.
WriterEnded(p, t) ==
    /\ p.tabStates[t].check \in 1..MaxPanelChecks
    /\ p.checks[p.tabStates[t].check].pc \in {"done", "failed"}

\* C21: a check that has ended, with a report or with an error, leaves the
\* tab state of its tab in status result or idle, never in status progress.
C21_EndedCheckLeavesNoProgress ==
    \A t \in PanelTabs : WriterEnded(panel, t) => panel.tabStates[t].status \in {"result", "idle"}
\* The check on A failed on empty content; nothing else happened, and the
\* tab state of A is still in progress.
C21_Diverges ==
    /\ panel.checks[1].tab = "A" /\ panel.checks[1].pc = "failed"
    /\ panel.checks[1].content = BlankContent
    /\ panel.switches = 0 /\ panel.navs = 0
    /\ panel.tabStates["A"].status = "progress" /\ panel.tabStates["A"].check = 1

(***************************************************************************)
(* Properties: events of the tool loop and of the stream                   *)
(***************************************************************************)
\* A search_complete event that carries an error.
IsErrorEvent(e) ==
    /\ e.type = "search_complete"
    /\ "error" \in DOMAIN e.data

\* C22: the step that handles a failing web_search call emits a
\* search_complete event carrying the error, in the first round and in
\* every continuation round.
C22_FailureSurfaced ==
    [][AtFailingCall /\ tcIdx' # tcIdx =>
          /\ Len(events') = Len(events) + 1
          /\ IsErrorEvent(events'[Len(events')])]_vars
\* A call has failed in a continuation round: its error message is among the
\* tool messages, and no event of the exchange carries an error.
C22_Diverges ==
    /\ depth >= 0 /\ pc = "tools"
    /\ \E k \in 1..Len(toolResults) : IsErrorMessage(toolResults[k])
    /\ \A k \in 1..Len(events) : ~IsErrorEvent(events[k])

\* The tool loop of the round is left.
ToolLoopLeft == pc \in {"tools", "exec"} /\ pc' \notin {"tools", "exec"}
\* The round ends without tool calls to execute: its content goes to the parser.
RoundParsed ==
    /\ pc' = "done" /\ result' = ParseResponse(fullContent)
    /\ requests' = requests /\ error' = NoError

\* C23: at the end of a stream round with a named tool call the tool calls
\* are executed and the continuation request is sent; at the end of a round
\* without one the round's content is parsed and the exchange is done.
C23_ContinuationIffNamedCall ==
    [][/\ EndOfStream =>
             IF HasNamedToolCall(toolCalls) THEN pc' = "tools" ELSE RoundParsed
       /\ ToolLoopLeft => ContinuationSent]_vars
\* The first round ended with a named tool call, and the exchange is done
\* with the parsed content of that round and no second request.
C23_Diverges ==
    /\ call = "analyzeTextStream" /\ pc = "done" /\ depth = -1 /\ requests = 1
    /\ HasNamedToolCall(toolCalls) /\ toolResults = <<>>
    /\ result = ParseResponse(fullContent)

\* The events a step adds, and the places of the response_start and thinking
\* events among them.
NewEvents == SubSeq(events', Len(events) + 1, Len(events'))
NewOfType(type) == {k \in 1..Len(NewEvents) : NewEvents[k].type = type}

\* C24: response_start is emitted only by a continuation round, with the
\* first content fragment of the round and before its thinking event; it is
\* emitted once per round (the flag it sets lasts to the end of the round),
\* a round without content does not emit it, the initial round never does.
C24_ResponseStartOncePerRound ==
    [][/\ NewOfType("response_start") # {} =>
             /\ pc = "stream" /\ depth >= 0
             /\ ~emittedResponseStart /\ fullContent = <<>>
             /\ NewOfType("response_start") = {1} /\ NewOfType("thinking") = {2}
       /\ NewOfType("thinking") # {} /\ depth >= 0 =>
             emittedResponseStart \/ NewOfType("response_start") = {1}
       /\ pc' = "stream" =>
             emittedResponseStart' = (depth' >= 0 /\ fullContent' # <<>>)]_vars
\* A continuation round has delivered two content fragments and the events
\* hold one response_start, right before the first of the two thinking events.
C24_Witness ==
    /\ depth = 0 /\ pc = "stream" /\ emittedResponseStart
    /\ fullContent = <<"Checking", "Checking">>
    /\ Cardinality({k \in 1..Len(events) : events[k].type = "response_start"}) = 1
    /\ \E k \in 1..(Len(events) - 2) :
          /\ events[k].type = "response_start"
          /\ events[k + 1].type = "thinking" /\ events[k + 2].type = "thinking"

\* The line the step has read.
LineRead == received'[Len(received')]
\* A reader.read() that delivered one line.
ReadsLine == pc = "stream" /\ Len(received') = Len(received) + 1

\* C25: a data line whose payload is not JSON, and the line data: [DONE],
\* change neither the content nor the tool calls, emit no event and leave
\* the stream being read: the lines after them are processed.
C25_BadLineSkipped ==
    [][ReadsLine /\ LineRead \in {MalformedLine, DoneLine} =>
          /\ fullContent' = fullContent /\ toolCalls' = toolCalls
          /\ events' = events /\ emittedResponseStart' = emittedResponseStart
          /\ pc' = "stream" /\ error' = NoError /\ result' = result]_vars
\* A malformed line and the sentinel were read, and the content line that
\* came after them is in the accumulated content.
C25_Witness ==
    /\ pc = "stream" /\ Len(received) = 3
    /\ received[1] = MalformedLine /\ received[2] = DoneLine
    /\ received[3] = DeltaLine(<<"Checking">>, <<>>)
    /\ fullContent = <<"Checking">>
    /\ events[Len(events)].type = "thinking"

\* ---------------------------------------------------------------------------
\* C26: during the streaming phase of a check, two successive writes of the
\* tab's persisted progress are more than two seconds apart, whatever event
\* triggers them.
WritesApart(ws) ==
    \A i \in 1..(Len(ws) - 1) : ws[i + 1] - ws[i] > SAVE_INTERVAL
C26_StreamWritesThrottled ==
    \A c \in DOMAIN panel.checks : WritesApart(panel.checks[c].writes)
\* Two writes of one stream at most the interval apart.
C26_Diverges ==
    \E c \in DOMAIN panel.checks :
        /\ panel.checks[c].pc = "stream"
        /\ Len(panel.checks[c].writes) >= 2
        /\ ~WritesApart(panel.checks[c].writes)
\* What the throttle does give: the saves made for content deltas are more
\* than the interval after the one before them.
C26_ThrottledSavesApart ==
    [][\A c \in DOMAIN panel.checks :
          /\ OnChunk(c)
          /\ Head(panel.checks[c].script).type = "thinking"
          /\ Len(panel'.checks[c].writes) > Len(panel.checks[c].writes)
          => panel.clock - panel.checks[c].lastStateSave > SAVE_INTERVAL]_vars

\* ---------------------------------------------------------------------------
\* C27: every result search() returned appears in the string
\* executeWebSearchTool returns: the top one as the browsed entry with its
\* title, URL, snippet and extracted content, every other one in the list of
\* titles and URLs after it.
AppearsIn(part, text) ==
    \E i \in 1..(Len(text) - Len(part) + 1) : SubSeq(text, i, i + Len(part) - 1) = part
\* The tool call has returned the formatted results of a search with hits.
ToolFormatted ==
    /\ web.pc = "done"
    /\ web.found.success
    /\ Len(web.found.results) > 0
    /\ web.out.kind = "return"
TopResultBrowsed ==
    AppearsIn(DetailedEntry(1, web.found.results[1], web.browsed.value), web.out.value)
C27_EveryResultAppears ==
    ToolFormatted =>
        /\ TopResultBrowsed
        /\ \A i \in 2..Len(web.found.results) :
              AppearsIn(LinkLines(<<web.found.results[i]>>), web.out.value)
\* The second result of the search is nowhere in the returned string.
C27_Diverges ==
    /\ ToolFormatted
    /\ Len(web.found.results) >= 2
    /\ ~AppearsIn(web.found.results[2].title, web.out.value)
    /\ ~AppearsIn(web.found.results[2].url, web.out.value)
\* What the code does give: the browsed top entry, and the results from the
\* fourth on in the list.
C27_TopAndTailAppear ==
    ToolFormatted =>
        /\ TopResultBrowsed
        /\ \A i \in 4..Len(web.found.results) :
              AppearsIn(LinkLines(<<web.found.results[i]>>), web.out.value)

\* ---------------------------------------------------------------------------
\* C28: whatever goes wrong while browsing the top result (timeout, network
\* error, non-2xx status, parse error), browsePage returns the empty string
\* and executeWebSearchTool still returns the formatted results with the
\* marker that content could not be extracted.
CouldNotExtract == <<"(Could not extract content)", "\n">>
\* The browsing of the top result went wrong and is over.
BrowseFailed == web.pc = "done" /\ web.failure # "none"
C28_FailureGivesEmptyContent ==
    BrowseFailed =>
        /\ web.browsed = Returned(<<>>)
        /\ web.out.kind = "return"
        /\ TopResultBrowsed
        /\ AppearsIn(CouldNotExtract, web.out.value)
\* C28 as the code has it: a failed request (network error, abort by the
\* timer, non-2xx status, unreadable body) gives the empty string and the
\* marker; a failed DOM extraction gives the regex-cleaned text of the page,
\* and the marker only if that is empty; the tool call returns the formatted
\* results in every case.
C28_FailureNeverFailsTool ==
    BrowseFailed =>
        /\ web.out.kind = "return"
        /\ web.browsed.kind = "return"
        /\ TopResultBrowsed
        /\ web.failure # "parse" => web.browsed.value = <<>>
        /\ web.failure = "parse" => web.browsed.value = CleanText(web.behaviour.html)
        /\ web.browsed.value = <<>> <=> AppearsIn(CouldNotExtract, web.out.value)
\* The DOM extraction threw on a page with text: content was extracted all
\* the same.
C28_Witness ==
    /\ BrowseFailed
    /\ web.failure = "parse"
    /\ AppearsIn(<<"**Extracted Content:**">>, web.out.value)
\* A failed request has ended in the marker.
C28_RequestFailed ==
    /\ BrowseFailed
    /\ web.failure = "timeout"
    /\ AppearsIn(CouldNotExtract, web.out.value)

\* ---------------------------------------------------------------------------
\* C29: the browsing of the top result always ends: while the page has not
\* been fetched and its body read, the 4-second timer is there to abort the
\* request, so a page that stalls before or after its response headers
\* cannot block the exchange.
BrowsePending == web.pc \in {"fetching", "reading"}
\* Some step of the page or of the timer can still end the browsing.
BrowseCanEnd ==
    \/ web.timer
    \/ web.pc = "fetching" /\ web.behaviour.fetch # "stalls"
    \/ web.pc = "reading" /\ web.behaviour.body # "stalls"
C29_BrowsingAlwaysEnds == BrowsePending => BrowseCanEnd
\* The headers have arrived, the timer is cleared, the body never comes:
\* nothing is left that could end browsePage.
C29_Diverges ==
    /\ web.pc = "reading"
    /\ web.behaviour.body = "stalls"
    /\ ~web.timer
    /\ ~ENABLED NextTool
\* What the timer does cover: a request whose headers have not arrived.
C29_TimerCoversHeaders == web.pc = "fetching" => web.timer

\* ---------------------------------------------------------------------------
\* C30: getFromCache(key) returns the stored entry if and only if an entry
\* was saved under key and fewer than 24 hours have passed since that save;
\* after 24 hours, after clearCacheEntry(key) or after clearCache() it
\* returns null; and a read never modifies the stored cache.
\* What the history of completed calls says a read of key returns at time t.
SavedAndFresh(saved, t) ==
    IF saved # NoEntry /\ t - saved.timestamp < CACHE_DURATION THEN saved ELSE NoEntry
\* Caller p's getFromCache returns in this step.
ReadReturns(p) == ApiRead(p) /\ cApi.calls[p].op = "getFromCache"
C30_ReadGivesSavedEntry ==
    [][\A p \in CacheCallers :
          ReadReturns(p) =>
              /\ cApi'.calls[p].out = SavedAndFresh(cApi.saved[cApi.calls[p].key], now)
              /\ cache' = cache]_vars
\* A read has returned null for a key whose save had completed less than 24
\* hours before and had not been cleared.
C30_Diverges ==
    \E p \in CacheCallers :
        LET c == cApi.calls[p] IN
        /\ c.op = "getFromCache" /\ c.pc = "idle"
        /\ c.was # NoEntry /\ c.at - c.was.timestamp < CACHE_DURATION
        /\ c.out = NoEntry
\* What the code does give: as long as no two calls of the cache functions
\* have overlapped, every read returns what the claim says.
C30_SequentialReads ==
    [][\A p \in CacheCallers :
          ReadReturns(p) /\ ~cApi.overlapped =>
              cApi'.calls[p].out = SavedAndFresh(cApi.saved[cApi.calls[p].key], now)]_vars
\* And a read never modifies the stored cache.
C30_ReadLeavesCache ==
    [][\A p \in CacheCallers : ReadReturns(p) => cache' = cache]_vars
\* A read without overlap has returned a saved entry; another has returned
\* null for an entry that is 24 hours old.
C30_FreshRead ==
    \E p \in CacheCallers :
        LET c == cApi.calls[p] IN
        /\ c.op = "getFromCache" /\ c.pc = "idle" /\ ~cApi.overlapped
        /\ c.out # NoEntry /\ c.out = c.was
C30_ExpiredRead ==
    \E p \in CacheCallers :
        LET c == cApi.calls[p] IN
        /\ c.op = "getFromCache" /\ c.pc = "idle" /\ ~cApi.overlapped
        /\ c.was # NoEntry /\ c.at - c.was.timestamp >= CACHE_DURATION
        /\ c.out = NoEntry

(***************************************************************************)
(* Properties: history deletion (specification SpecDeletion)               *)
(***************************************************************************)
\* C31: after a history item with URL u is deleted, or the history is
\* cleared, every open tab in status result for u (for any URL when
\* clearing) is set to idle; a tab shows u whenever its URL normalizes to the
\* same URL as u, the matching by which results are restored.
ShowedResultFor(t, u) ==
    /\ panel.before[t].status = "result"
    /\ NormalizeUrl(panel.tabUrl[t]) = NormalizeUrl(u)
C31_DeletionResetsTabs ==
    /\ panel.event = "delete" =>
          \A t \in PanelTabs :
             ShowedResultFor(t, panel.deleted) => panel.tabStates[t].status = "idle"
    /\ panel.event = "clear" =>
          \A t \in PanelTabs :
             panel.before[t].status = "result" => panel.tabStates[t].status = "idle"
\* The item a tab's result was restored from has been deleted and the tab is
\* still in status result with it.
C31_Diverges ==
    /\ panel.event = "delete"
    /\ \E t \in PanelTabs :
          /\ ShowedResultFor(t, panel.deleted)
          /\ panel.tabStates[t] = panel.before[t]
          /\ panel.tabStates[t].content = panel.deleted
          /\ \A i \in 1..Len(panel.list) : panel.list[i].id # panel.tabStates[t].report.id
\* What the code does give: clearing resets every tab in status result, and
\* deleting resets those whose URL string contains the deleted one.
C31_ClearAndSameStringReset ==
    /\ panel.event = "delete" =>
          \A t \in PanelTabs :
             /\ panel.before[t].status = "result"
             /\ Includes(UrlString(panel.tabUrl[t]), UrlString(panel.deleted))
             => panel.tabStates[t].status = "idle"
    /\ panel.event = "clear" =>
          \A t \in PanelTabs :
             panel.before[t].status = "result" => panel.tabStates[t].status = "idle"
C31_TabReset ==
    /\ panel.event = "delete"
    /\ \E t \in PanelTabs :
          ShowedResultFor(t, panel.deleted) /\ panel.tabStates[t].status = "idle"

(***************************************************************************)
(* Properties: the endpoint (specification SpecEndpoint)                   *)
(***************************************************************************)
\* C32: for every configured providerUrl (with or without a trailing slash,
\* with or without the '/chat/completions' suffix) every request, whether
\* analysis, continuation or summary, goes to the same endpoint, which ends
\* with exactly one '/chat/completions' and has no doubled slash before it.
CountOf(str, piece) == Cardinality({i \in 1..Len(str) : str[i] = piece})
DoubledSlash(str) == \E i \in 1..(Len(str) - 1) : str[i] = "/" /\ str[i + 1] = "/"
WellFormedEndpoint(e) ==
    /\ StringEndsWith(e, Suffix)
    /\ CountOf(e, Completions) = 1
    /\ ~DoubledSlash(e)
C32_OneEndpoint ==
    \A i \in 1..Len(requests) :
       /\ WellFormedEndpoint(requests[i].endpoint)
       /\ \A j \in 1..Len(requests) : requests[j].endpoint = requests[i].endpoint
\* A summary request has gone to an endpoint with a doubled slash or a
\* doubled suffix, another request of the same configuration has not.
C32_Diverges ==
    \E i, j \in 1..Len(requests) :
       /\ requests[i].kind = "summary" /\ ~WellFormedEndpoint(requests[i].endpoint)
       /\ requests[j].kind = "analysis" /\ WellFormedEndpoint(requests[j].endpoint)
\* What the code does give: analysis and continuation requests share one
\* endpoint, which is well formed unless the configured URL has a slash after
\* the suffix; the summary request agrees with them when the configured URL
\* has neither a trailing slash nor the suffix.
C32_StreamRequestsAgree ==
    \A i \in 1..Len(requests) :
       LET r == requests[i] IN
       /\ r.kind # "summary" =>
             /\ \A j \in 1..Len(requests) :
                   requests[j].kind # "summary" => requests[j].endpoint = r.endpoint
             /\ ~StringEndsWith(this.providerUrl, Suffix \o <<"/">>) => WellFormedEndpoint(r.endpoint)
       /\ r.kind = "summary" /\ ~StringEndsWith(this.providerUrl, <<"/">>)
                             /\ CountOf(this.providerUrl, Completions) = 0 =>
             r.endpoint = StreamEndpoint(this.providerUrl) /\ WellFormedEndpoint(r.endpoint)
C32_SummaryAgrees ==
    \E i, j \in 1..Len(requests) :
       /\ requests[i].kind = "summary" /\ requests[j].kind = "continuation"
       /\ requests[i].endpoint = requests[j].endpoint

(***************************************************************************)
(* Properties: the order of the tool calls (specification Spec)            *)
(***************************************************************************)
\* The web_search calls of the round before position idx.
SearchesBefore(idx) ==
    {i \in 1..(idx - 1) : ~IsHole(toolCalls[i]) /\ toolCalls[i].function.name = "web_search"}
\* C33: within one tool round the tool calls run one at a time in the order
\* of the list: the search_start of a call is emitted only when every call
\* before it has finished and its tool message has been appended, so no
\* search is in flight when the next one starts.
C33_ToolCallsRunInTurn ==
    [][NewOfType("search_start") # {} =>
          /\ pc = "tools" /\ pc' = "exec"
          /\ Len(NewEvents) = 1
          /\ Len(toolResults) = Cardinality(SearchesBefore(tcIdx))
          /\ \A i \in SearchesBefore(tcIdx) :
                \E k \in 1..Len(toolResults) : toolResults[k].tool_call_id = toolCalls[i].id
          /\ tcIdx' = tcIdx /\ toolResults' = toolResults]_vars
\* The second search of a round is in flight, the first has its tool message.
C33_Witness ==
    /\ pc = "exec" /\ tcIdx = 2
    /\ Cardinality(SearchesBefore(tcIdx)) = 1
    /\ Len(toolResults) = 1
    /\ toolResults[1].tool_call_id = toolCalls[1].id

(***************************************************************************)
(* Properties: tool calls and their tool messages (specification Spec)     *)
(***************************************************************************)
\* The positions of the tool messages that answer the assistant message at i:
\* those after it, up to the next assistant message.
RoundAfter(i) ==
    {j \in (i + 1)..Len(messages) :
        /\ messages[j].role = "tool"
        /\ \A m \in (i + 1)..(j - 1) : messages[m].role = "tool"}
AnswersTo(i, id) == {j \in RoundAfter(i) : messages[j].tool_call_id = id}
\* A continuation request is on its way.
ContinuationOnItsWay == depth >= 0 /\ pc = "fetch"
\* C34: in every continuation request each tool call listed in an assistant
\* message's tool_calls has exactly one tool message with its tool_call_id in
\* that round, also a tool call whose name is not web_search or is empty.
C34_EveryToolCallAnswered ==
    ContinuationOnItsWay =>
        \A i \in 1..Len(messages) :
           messages[i].role = "assistant" =>
              \A k \in 1..Len(messages[i].tool_calls) :
                 Cardinality(AnswersTo(i, messages[i].tool_calls[k].id)) = 1
\* A request lists a tool call of another name and has no tool message for it.
C34_Diverges ==
    /\ ContinuationOnItsWay
    /\ \E i \in 1..Len(messages) :
          /\ messages[i].role = "assistant"
          /\ \E k \in 1..Len(messages[i].tool_calls) :
                /\ messages[i].tool_calls[k].function.name # "web_search"
                /\ AnswersTo(i, messages[i].tool_calls[k].id) = {}
\* What the code does give: a round has one tool message for each of its
\* calls named web_search, in the order of the list.
C34_WebSearchCallsAnswered ==
    ContinuationOnItsWay =>
        \A i \in 1..Len(messages) :
           messages[i].role = "assistant" =>
              LET tcs == messages[i].tool_calls
                  searches == {k \in 1..Len(tcs) : tcs[k].function.name = "web_search"}
              IN /\ Cardinality(RoundAfter(i)) = Cardinality(searches)
                 /\ \A k \in searches : AnswersTo(i, tcs[k].id) # {}

(***************************************************************************)
(* Properties: overlapping saves (specification SpecHistory)               *)
(***************************************************************************)
InHistory(item, list) == \E k \in 1..Len(list) : list[k] = item
\* The items stored by the saves of this behaviour (the older ones have
\* negative ids).
SavedHere(list) == {k \in 1..Len(list) : list[k].id >= 0}
\* C35: when two checks finish at overlapping times and both call
\* saveHistory, the stored history afterwards has the items of both: no
\* interleaving of the two read-then-write sequences loses an item.
C35_NoSaveLost ==
    [][\A p \in HistoryCallers :
          SaveHistoryWrite(p) =>
             \A k \in SavedHere(history) : InHistory(history[k], history')]_vars
\* Both callers have stored an item and returned; the stored history has the
\* item of one of them only.
C35_Diverges ==
    /\ \A p \in HistoryCallers : hLocal[p].pc = "idle" /\ hLocal[p].returned # <<>>
    /\ \E p \in HistoryCallers : ~InHistory(hLocal[p].returned[1], history)
    /\ Cardinality(SavedHere(history)) = 1
\* What the code does give: a save that read the list after the save before
\* it was stored keeps that save's items.
C35_SavesInTurnKept ==
    [][\A p \in HistoryCallers :
          SaveHistoryWrite(p) /\ hLocal[p].list = history =>
             \A k \in SavedHere(history) : InHistory(history[k], history')]_vars

(***************************************************************************)
(* Properties: the page a check describes (SpecPanel)                      *)
(***************************************************************************)
\* The history items the checks of this session saved.
SavedByChecks == {h \in panel.urlHistory : h.check >= 1}
\* The url and the content of the item belong to one page, loaded in the tab
\* the check was started on.
DescribesOnePage(h) ==
    /\ h.url = h.content
    /\ h.content.tab = panel.checks[h.check].tab
\* The result in the state of tab t was made from a page loaded in t.
ResultOfOwnPage(t) ==
    (panel.tabStates[t].status = "result" /\ panel.tabStates[t].check >= 1)
        => panel.tabStates[t].content.tab = t

\* C36: the history item and the TabState result a check started on tab T
\* writes describe one page: the stored url is that of the page the stored
\* content was extracted from, and that page was loaded in T, also when the
\* user switches tabs or T navigates while the check is running.
C36_OnePageDescribed ==
    /\ \A h \in SavedByChecks : DescribesOnePage(h)
    /\ \A t \in PanelTabs : ResultOfOwnPage(t)

\* A saved item whose url is that of one page and whose content is that of
\* another.
C36_Diverges ==
    \E h \in SavedByChecks : h.url # h.content /\ h.url.tab = panel.checks[h.check].tab

\* What the code keeps: the url of an item is read from the tab the check was
\* started on, and a check that ran with no tab switch and no navigation
\* describes one page.
C36_UrlOfCheckTab ==
    \A h \in SavedByChecks : h.url.tab = panel.checks[h.check].tab
C36_QuietCheckDescribesOnePage ==
    (panel.switches = 0 /\ panel.navs = 0)
        => /\ \A h \in SavedByChecks : DescribesOnePage(h)
           /\ \A t \in PanelTabs : ResultOfOwnPage(t)
C36_QuietCheckSaved ==
    panel.switches = 0 /\ panel.navs = 0 /\ SavedByChecks # {}

(***************************************************************************)
(* Properties: the lock of restoreTabState (SpecPanel)                     *)
(***************************************************************************)
\* The executions of restoreTabState that are suspended at an await.
RestoresInProgress == panel.restores

\* C37: at most one execution of restoreTabState is in progress at any time;
\* isRestoringState is true from the start of an execution to its last UI
\* update, also while it is suspended at an await and on the path that
\* restores a result from history and calls restoreTabState again, and it is
\* false whenever no execution is in progress.
C37_OneRestoreUnderLock ==
    /\ Cardinality(RestoresInProgress) <= 1
    /\ panel.isRestoringState <=> RestoresInProgress # {}

\* An execution waits for chrome.tabs.get with the lock open.
C37_Diverges ==
    \E r \in RestoresInProgress : r.pc = "info" /\ ~panel.isRestoringState
\* Two executions are in progress.
C37_TwoRestores == Cardinality(RestoresInProgress) = 2

\* What the code keeps: the lock is open whenever no execution is in
\* progress.
C37_OpenWhenNoneInProgress ==
    RestoresInProgress = {} => ~panel.isRestoringState

(***************************************************************************)
(* Properties: the split of a body into network reads (SpecReads)          *)
(***************************************************************************)
NoAccumulators ==
    [fullContent |-> <<>>, toolCalls |-> <<>>, emittedResponseStart |-> FALSE, events |-> <<>>]
\* What the lines of a body accumulate when every line arrives within one read.
RECURSIVE WholeLines(_, _, _)
WholeLines(fn, acc, lines) ==
    IF lines = <<>> THEN acc
    ELSE WholeLines(fn, ProcessText(fn, acc, SubSeq(WireLine(Head(lines)), 1,
                                                    Len(WireLine(Head(lines))) - 2)),
                    Tail(lines))
\* The loop body applied to the lines as the endpoint wrote them.
RECURSIVE LinesApplied(_, _, _)
LinesApplied(fn, acc, lines) ==
    IF lines = <<>> THEN acc
    ELSE LinesApplied(fn, ProcessLine(fn, acc, Head(lines)), Tail(lines))
SameAsWholeLines ==
    LET whole == WholeLines(call, NoAccumulators, response.lines) IN
    fullContent = whole.fullContent /\ toolCalls = whole.toolCalls
\* A read ended inside the text of a line: neither at a line break nor before one.
LineCut ==
    \E i \in 1..(Len(received) - 1) :
        received[i][Len(received[i])] # "\n" /\ Head(received[i + 1]) # "\n"
BodyRead == scenario = "reads" /\ pc = "done"

\* C38: the content and the tool calls accumulated from a stream do not
\* depend on how the bytes of the body are split into network reads: a data
\* line delivered across two successive reads has the same effect as the
\* same line delivered within one read.
C38_ReadsSplitFreely == BodyRead => SameAsWholeLines

\* A line that came in two reads has left no trace in the accumulators.
C38_Diverges == BodyRead /\ LineCut /\ ~SameAsWholeLines /\ toolCalls = <<>>
                    /\ fullContent = <<>>

\* What the code keeps: reads that end at line breaks accumulate what the
\* lines accumulate one by one, and a line on the wire is read back as the
\* line the endpoint wrote.
C38_ReadsOfWholeLines == (BodyRead /\ ~LineCut) => SameAsWholeLines
C38_WholeLinesInSeveralReads ==
    BodyRead /\ ~LineCut /\ Len(received) = MaxReads /\ toolCalls # <<>>
C38_WireLineReadBack ==
    BodyRead => WholeLines(call, NoAccumulators, response.lines)
                    = LinesApplied(call, NoAccumulators, response.lines)

(***************************************************************************)
(* Properties: the order of the persisted statuses (SpecPanel, Spec)       *)
(***************************************************************************)
\* The session has announced the response and started a search after that.
C39_SearchAfterResponseStart ==
    \E i, j \in 1..Len(events) :
        i < j /\ events[i].type = "response_start" /\ events[j].type = "search_start"

StepRank(step) ==
    CASE step = "extract" -> 1 [] step = "prompt" -> 2 [] step = "analyze" -> 3
      [] step = "complete" -> 4 [] OTHER -> 0
StatusRank(status) ==
    CASE status = "pending" -> 0 [] status = "active" -> 1 [] status = "complete" -> 2
      [] OTHER -> 0 - 1
SubstepNames == {"extract", "prompt", "search", "processing", "report", "summary"}
\* Both states hold the progress of one check on tab t.
SameCheckPersisted(t) ==
    /\ panel.tabStates[t].status = "progress" /\ panel'.tabStates[t].status = "progress"
    /\ panel.tabStates[t].check = panel'.tabStates[t].check
MovesForward(t) ==
    /\ StepRank(panel'.tabStates[t].step) >= StepRank(panel.tabStates[t].step)
    /\ \A k \in SubstepNames :
          StatusRank(panel'.tabStates[t].sub[k]) >= StatusRank(panel.tabStates[t].sub[k])

\* C39: during one check the persisted step only moves forward (extract,
\* prompt, analyze, complete) and the status of each substep only moves
\* forward (pending, active, complete): once the search substep is complete
\* it never becomes active again, whatever events the session emits.
C39_StatusesMoveForward ==
    [][\A t \in PanelTabs : SameCheckPersisted(t) => MovesForward(t)]_vars

\* The persisted search substep is active after a response_start of the same
\* check had completed it.
C39_Diverges ==
    \E c \in StartedChecks :
        LET t == panel.checks[c].tab IN
        /\ panel.tabStates[t].status = "progress" /\ panel.tabStates[t].check = c
        /\ panel.tabStates[t].sub.search = "active"
        /\ panel.tabStates[t].step = "complete"
        /\ \E i \in 1..Len(panel.checks[c].seen) : panel.checks[c].seen[i] = ResponseStart

\* What the code keeps: the persisted step of a check never moves back, and
\* no substep but search does; until the first response_start the search
\* substep does not move back either.
C39_StepMovesForward ==
    [][\A t \in PanelTabs :
          SameCheckPersisted(t) =>
              /\ StepRank(panel'.tabStates[t].step) >= StepRank(panel.tabStates[t].step)
              /\ \A k \in SubstepNames \ {"search"} :
                    StatusRank(panel'.tabStates[t].sub[k])
                        >= StatusRank(panel.tabStates[t].sub[k])]_vars
C39_SearchBackOnlyAfterResponseStart ==
    [][\A t \in PanelTabs :
          (SameCheckPersisted(t) /\ panel.tabStates[t].sub.search # "complete")
              => MovesForward(t)]_vars

=============================================================================
